---- MODULE Spec2Model ----
(***************************************************************************)
(* Geohash-partitioned result cache with temporal-decay scoring            *)
(* (zameen-proximity-cache): decay.service.js, proximity-cache.service.js, *)
(* property.services.js, route/property.route.js, and the coordinate       *)
(* validation of proxmity-cache/nodejs/src/utils/validation.js.            *)
(*                                                                         *)
(* Representation of the reals the code computes with:                     *)
(*  - time is counted in whole days; a Date is the day it falls on;        *)
(*  - a latitude is the fixed-point number lat = -90 + u * 180 / 2^17      *)
(*    and a longitude lng = -180 + u * 360 / 2^18: one unit is the side    *)
(*    of a precision-7 geohash cell, so 0 .. Lat90 are the valid           *)
(*    latitudes and 0 .. Lng180 the valid longitudes;                      *)
(*  - a temporal score s is the integer s * ScoreOne, computed with        *)
(*    Math.exp tabulated to three decimals (ExpTable);                     *)
(*  - a radius is a whole number of km, or NaN.                            *)
(***************************************************************************)
EXTENDS Integers, Sequences, FiniteSets, TLC

VARIABLES
    now,          \* the clock (days)
    kv,           \* Redis string keys: key -> stored bucket (JSON text) with its expiry
    scoreIndex,   \* Redis sorted set 'temporal_scores': key -> score
    docs,         \* the Property collection
    hitCounter,   \* cacheOptimizer.hitCounter
    missCounter,  \* cacheOptimizer.missCounter
    cacheHits,    \* decay.service.js cacheHits
    cacheHitCount, \* redis.services.js cacheHits, which GET /cacheStats reports
    awaiting,     \* the calls suspended at an await (per key, the calls of optimizeIfNeeded)
    resp          \* the last call: its operation, arguments and result

vars == <<now, kv, scoreIndex, docs, hitCounter, missCounter, cacheHits, cacheHitCount, awaiting, resp>>

(***************************************************************************)
(* Bounds of the model.                                                    *)
(***************************************************************************)
MaxTime == 1
MaxDecayTime == 5
MaxRequests == 2
MaxHits == 2
MaxDocs == 1
MaxQueryDocs == 2
MaxKeyEvents == 100
MaxOtherEvents == 1
MaxHandlers == 2

(***************************************************************************)
(* JavaScript values.                                                      *)
(***************************************************************************)
\* Number.parseFloat(undefined): a reserved value; every comparison with it is false.
NaN == 1000000

Null == [type |-> "null"]

Date(t) == [type |-> "Date", t |-> t]

\* Date.prototype.toJSON: the ISO string of the instant.
IsoString(t) == [type |-> "string", t |-> t]

\* The null JSON.parse returns where JSON.stringify found NaN: a reserved
\* value, different from every number and from NaN.
NullNumber == 1000001

\* JSON.stringify of a number: NaN is written as null; any other number as itself.
JsonNumber(n) == IF n = NaN THEN NullNumber ELSE n

\* new Date(x) of a Date or of the ISO string JSON.parse returned.
DateOf(x) == x.t

Min(a, b) == IF a <= b THEN a ELSE b

Max(a, b) == IF a >= b THEN a ELSE b

\* a <= b of two JavaScript numbers.
NumLE(a, b) == a # NaN /\ b # NaN /\ a <= b

(***************************************************************************)
(* Geo primitives (ngeohash).  A geohash of length p interleaves           *)
(* ceil(5p/2) longitude bits with floor(5p/2) latitude bits; it is         *)
(* modelled by its length and its two cell indices.                        *)
(***************************************************************************)
Lat90 == 131072
Lng180 == 262144

Pow2(n) == 2 ^ n

LatBits(p) == (5 * p) \div 2

LngBits(p) == 5 * p - LatBits(p)

\* Geohash.encode: bisection of [-90, 90] and [-180, 180]; a coordinate on or
\* beyond the upper end takes the upper half at every step.
GeohashEncode(lat, lng, p) ==
    <<p,
      Max(0, Min(Pow2(LatBits(p)) - 1, lat \div Pow2(17 - LatBits(p)))),
      Max(0, Min(Pow2(LngBits(p)) - 1, lng \div Pow2(18 - LngBits(p))))>>

\* The directions of Geohash.neighbors, in its order: n, ne, e, se, s, sw, w, nw.
NeighborDirs ==
    <<<<1, 0>>, <<1, 1>>, <<0, 1>>, <<-1, 1>>, <<-1, 0>>, <<-1, -1>>, <<0, -1>>, <<1, -1>>>>

\* Geohash.neighbors: the cell one step away; the longitude wraps, the latitude
\* is kept within range.
GeohashNeighbor(h, d) ==
    <<h[1],
      Max(0, Min(Pow2(LatBits(h[1])) - 1, h[2] + d[1])),
      (h[3] + d[2] + Pow2(LngBits(h[1]))) % Pow2(LngBits(h[1]))>>

GeohashNeighbors(h) == [i \in 1..8 |-> GeohashNeighbor(h, NeighborDirs[i])]

(***************************************************************************)
(* proximity-cache.service.js: organizeCache                               *)
(***************************************************************************)
GEOHASH_SMALL == 7
GEOHASH_MEDIUM == 6
GEOHASH_LARGE == 5

getPrecisionLT(radius) ==
    IF radius # NaN /\ radius < 1 THEN GEOHASH_SMALL
    ELSE IF radius # NaN /\ radius < 5 THEN GEOHASH_MEDIUM
    ELSE GEOHASH_LARGE

getPrecision(radius) ==
    IF NumLE(radius, 1) THEN GEOHASH_SMALL
    ELSE IF NumLE(radius, 5) THEN GEOHASH_MEDIUM
    ELSE GEOHASH_LARGE

\* The key `geo:${geohash}:${radius}`.
CacheKey(hash, radius) == [hash |-> hash, radius |-> radius]

generateKey(lat, lng, radius) ==
    CacheKey(GeohashEncode(lat, lng, getPrecision(radius)), radius)

getNeighbors(lat, lng, radius) ==
    GeohashNeighbors(GeohashEncode(lat, lng, getPrecision(radius)))

\* Redis KEYS `geo:${cell}:*`: the keys whose geohash is exactly cell.
KeysMatching(store, cell) == {k \in DOMAIN store : k.hash = cell}

(***************************************************************************)
(* decay.service.js: the temporal scorer                                   *)
(***************************************************************************)
\* The score 1.0.
ScoreOne == 5000000

MAX_AGE_DAYS == 90
RECENT_maxDays == 7
MEDIUM_maxDays == 30

\* round(1000 * Math.exp(-0.1 * a)) for a = -45 .. 90.
ExpTable ==
    <<90017, 81451, 73700, 66686, 60340, 54598, 49402, 44701, 40447, 36598, 33115, 29964,
      27113, 24533, 22198, 20086, 18174, 16445, 14880, 13464, 12182, 11023, 9974, 9025,
      8166, 7389, 6686, 6050, 5474, 4953, 4482, 4055, 3669, 3320, 3004, 2718,
      2460, 2226, 2014, 1822, 1649, 1492, 1350, 1221, 1105, 1000, 905, 819,
      741, 670, 607, 549, 497, 449, 407, 368, 333, 301, 273, 247,
      223, 202, 183, 165, 150, 135, 122, 111, 100, 91, 82, 74,
      67, 61, 55, 50, 45, 41, 37, 33, 30, 27, 25, 22,
      20, 18, 17, 15, 14, 12, 11, 10, 9, 8, 7, 7,
      6, 6, 5, 5, 4, 4, 3, 3, 3, 2, 2, 2,
      2, 2, 2, 1, 1, 1, 1, 1, 1, 1, 1, 1,
      1, 1, 0, 0, 0, 0, 0, 0, 0, 0, 0, 0,
      0, 0, 0, 0>>

\* BASE_SCORE * Math.exp(-DECAY_FACTOR * Math.min(ageInDays, MAX_AGE_DAYS)), in thousandths.
ExpDecay(ageInDays) == ExpTable[Min(ageInDays, MAX_AGE_DAYS) + 46]

NoAttributes == [isPremium |-> FALSE, isFeatured |-> FALSE, isVerified |-> FALSE]

\* A scorer whose weight for the oldest band is that of the recent one.
calculateTemporalScoreOldAsRecent(t, dateAdded, attrs) ==
    LET ageInDays == t - dateAdded
        weight == IF ageInDays <= RECENT_maxDays THEN 5
                  ELSE IF ageInDays <= MEDIUM_maxDays THEN 4
                  ELSE 5
    IN  ExpDecay(ageInDays) * weight
          * (IF attrs.isPremium THEN 6 ELSE 5)
          * (IF attrs.isFeatured THEN 11 ELSE 10)
          * (IF attrs.isVerified THEN 21 ELSE 20)

\* The time weight in fifths (1.0, 0.8, 0.6) and the boosts 1.2 = 6/5,
\* 1.1 = 11/10, 1.05 = 21/20: the product is the score in units of 1 / ScoreOne.
calculateTemporalScore(t, dateAdded, attrs) ==
    LET ageInDays == t - dateAdded
        weight == IF ageInDays <= RECENT_maxDays THEN 5
                  ELSE IF ageInDays <= MEDIUM_maxDays THEN 4
                  ELSE 3
    IN  ExpDecay(ageInDays) * weight
          * (IF attrs.isPremium THEN 6 ELSE 5)
          * (IF attrs.isFeatured THEN 11 ELSE 10)
          * (IF attrs.isVerified THEN 21 ELSE 20)

\* A TTL of a week whatever the score.
calculateDynamicTTLWeek(score) == 604800

\* A TTL of baseTime whatever the score.
calculateDynamicTTLBase(score) == 3600

\* Math.floor(minTTL + (maxTTL - minTTL) * score) with baseTime = 3600:
\* 1800 + floor(5400 * score / ScoreOne) = 1800 + floor(27 * score / 25000).
calculateDynamicTTL(score) ==
    1800 + 27 * (score \div 25000) + (27 * (score % 25000)) \div 25000

\* currentScore < parsed.score * 0.7, i.e. 10 * currentScore < 7 * stored.
Degraded(currentScore, stored) ==
    LET d == currentScore - 7 * (stored \div 10)
    IN  IF d < 0 THEN TRUE
        ELSE IF d >= 7 THEN FALSE
        ELSE 10 * d < 7 * (stored % 10)

(***************************************************************************)
(* JSON.stringify / JSON.parse of the cached payloads.  A payload is the   *)
(* result of a nearby query ({properties, totalCount, totalPages,          *)
(* currentPage, metadata}) or a warming payload ({properties, metadata}).  *)
(***************************************************************************)
\* A Date comes back as its ISO string.
JsonDate(x) == IsoString(x.t)

JsonItem(item) == [item EXCEPT !.date_added = JsonDate(item.date_added)]

JsonItems(items) == [i \in 1..Len(items) |-> JsonItem(items[i])]

JsonMetadata(m) ==
    IF "radius" \in DOMAIN m
    THEN [queryTimestamp |-> JsonDate(m.queryTimestamp),
          coordinates |-> m.coordinates,
          radius |-> JsonNumber(m.radius)]
    ELSE [queryTimestamp |-> JsonDate(m.queryTimestamp)]

\* JSON.parse(JSON.stringify(value)).
JsonRoundTrip(value) ==
    [f \in DOMAIN value |->
        IF f = "properties" THEN JsonItems(value.properties)
        ELSE IF f = "metadata" THEN JsonMetadata(value.metadata)
        ELSE value[f]]

(***************************************************************************)
(* The KV store (Redis): string keys with a TTL, and the sorted set.       *)
(***************************************************************************)
SecondsPerDay == 86400

\* A key that never expires.
ExpiredNever(entry, t) == FALSE

\* A key set at setAt with ttl seconds is gone once ttl seconds have passed.
Expired(entry, t) == (t - entry.setAt) * SecondsPerDay >= entry.ttl

\* client.setEx(key, ttl, text)
SetEx(store, key, ttl, text, t) ==
    (key :> [json |-> text, ttl |-> ttl, setAt |-> t]) @@ store

\* client.del(keys)
Del(store, keys) == [k \in DOMAIN store \ keys |-> store[k]]

\* client.zAdd('temporal_scores', {score, value: key})
ZAdd(index, key, score) == (key :> score) @@ index

\* client.zRem('temporal_scores', key)
ZRem(index, key) == [k \in DOMAIN index \ {key} |-> index[k]]

\* A range that leaves out the entries with score hi.
ZRangeByScoreBelow(index, lo, hi) == {k \in DOMAIN index : lo <= index[k] /\ index[k] < hi}

\* client.zRangeByScore('temporal_scores', lo, hi)
ZRangeByScore(index, lo, hi) == {k \in DOMAIN index : lo <= index[k] /\ index[k] <= hi}

\* client.zRemRangeByScore('temporal_scores', lo, hi)
ZRemRangeByScore(index, lo, hi) ==
    [k \in DOMAIN index \ ZRangeByScore(index, lo, hi) |-> index[k]]

\* The geohash as a number: its bits, longitude first, in the order of the
\* base-32 digits, whose alphabet ascends.  Two geohashes of one length
\* compare as strings the way these numbers compare.
RECURSIVE Interleave(_, _, _)
Interleave(latIdx, lngIdx, n) ==
    IF n = 0 THEN 0
    ELSE IF n % 2 = 1 THEN 2 * Interleave(latIdx, lngIdx \div 2, n - 1) + (lngIdx % 2)
    ELSE 2 * Interleave(latIdx \div 2, lngIdx, n - 1) + (latIdx % 2)

\* The decimal text of a radius below 100, as its digits.
RadiusText(radius) == IF radius < 10 THEN <<radius>> ELSE <<radius \div 10, radius % 10>>

\* Whether text a sorts after text b.
TextAfter(a, b) ==
    \/ a[1] > b[1]
    \/ a[1] = b[1] /\ Len(a) = 2 /\ (Len(b) = 1 \/ a[2] > b[2])

\* Whether member `geo:${k1.hash}:${k1.radius}` sorts after k2's, for two keys
\* of one precision: the order in which the sorted set keeps equal scores.
KeyAfter(k1, k2) ==
    \/ Interleave(k1.hash[2], k1.hash[3], 5 * k1.hash[1])
            > Interleave(k2.hash[2], k2.hash[3], 5 * k2.hash[1])
    \/ k1.hash = k2.hash /\ TextAfter(RadiusText(k1.radius), RadiusText(k2.radius))

\* The member that zRevRangeByScore('+inf', '-inf') returns first.
FirstRanked(index) ==
    CHOOSE k \in DOMAIN index :
        \A x \in DOMAIN index \ {k} :
            index[k] > index[x] \/ (index[k] = index[x] /\ KeyAfter(k, x))

\* client.zRevRangeByScore('temporal_scores', '+inf', '-inf', {LIMIT: {offset: 0, count}})
RECURSIVE ZRevRangeByScore(_, _)
ZRevRangeByScore(index, count) ==
    IF count = 0 \/ DOMAIN index = {} THEN <<>>
    ELSE <<FirstRanked(index)>> \o ZRevRangeByScore(ZRem(index, FirstRanked(index)), count - 1)

(***************************************************************************)
(* decay.service.js: setCacheWithTemporalDecay / getCacheWithTemporalCheck *)
(***************************************************************************)
\* The text written by setEx: {data, score, timestamp, metadata: {dateAdded, ...attrs}}.
BucketText(value, score, dateAdded, attrs, t) ==
    [data |-> JsonRoundTrip(value),
     score |-> score,
     timestamp |-> t,
     metadata |-> [dateAdded |-> JsonDate(Date(dateAdded)),
                   isPremium |-> attrs.isPremium,
                   isFeatured |-> attrs.isFeatured,
                   isVerified |-> attrs.isVerified]]

\* The keys and the sorted set after setCacheWithTemporalDecay.
PutStore(store, key, value, dateAdded, attrs, t) ==
    LET score == calculateTemporalScore(t, dateAdded, attrs)
    IN  SetEx(store, key, calculateDynamicTTL(score),
              BucketText(value, score, dateAdded, attrs, t), t)

\* A put that writes the bucket and leaves the sorted set alone.
PutIndexSkipped(index, key, dateAdded, attrs, t) == index

PutIndex(index, key, dateAdded, attrs, t) ==
    ZAdd(index, key, calculateTemporalScore(t, dateAdded, attrs))

\* The score the bucket was stored with.
CurrentScoreStored(parsed, t) == parsed.score

\* The score getCacheWithTemporalCheck recomputes from the stored metadata.
CurrentScore(parsed, t) ==
    calculateTemporalScore(t, DateOf(parsed.metadata.dateAdded), parsed.metadata)

\* A degradation check against the stored score itself (no 0.7).
IsStaleAnyDrop(store, key, t) ==
    key \in DOMAIN store /\ CurrentScore(store[key].json, t) < store[key].json.score

\* Whether getCacheWithTemporalCheck finds the key and evicts it.
IsStale(store, key, t) ==
    key \in DOMAIN store /\ Degraded(CurrentScore(store[key].json, t), store[key].json.score)

\* A get that returns the parsed bucket instead of its data.
GetResultWhole(store, key, t) ==
    IF key \notin DOMAIN store \/ IsStale(store, key, t) THEN Null
    ELSE store[key].json

\* What getCacheWithTemporalCheck returns.
GetResult(store, key, t) ==
    IF key \notin DOMAIN store \/ IsStale(store, key, t) THEN Null
    ELSE store[key].json.data

GetStore(store, key, t) == IF IsStale(store, key, t) THEN Del(store, {key}) ELSE store

GetIndex(store, index, key, t) == IF IsStale(store, key, t) THEN ZRem(index, key) ELSE index

\* A hit test that also takes a result without properties for a miss.
TruthyNonEmpty(result) == result # Null /\ result.properties # <<>>

\* if (cachedResult): null is a miss.
Truthy(result) == result # Null

(***************************************************************************)
(* The doc store (MongoDB, the Property collection) as property.services   *)
(* uses it: $geoNear with maxDistance, $count, $skip, $limit.              *)
(***************************************************************************)
\* One unit of latitude or longitude at the equator, in metres (6371 km * pi / 2^17).
MetersPerUnit == 153

Abs(a) == IF a < 0 THEN -a ELSE a

Isqrt(n) == CHOOSE r \in 0..150 : r * r <= n /\ n < (r + 1) * (r + 1)

\* The spherical distance in metres; beyond 100 units it is only known to be
\* larger than every radius asked for.
Distance(lat1, lng1, lat2, lng2) ==
    IF Abs(lat2 - lat1) > 100 \/ Abs(lng2 - lng1) > 100 THEN 20000000
    ELSE MetersPerUnit * Isqrt((lat2 - lat1) * (lat2 - lat1) + (lng2 - lng1) * (lng2 - lng1))

\* A GeoJSON point must have longitude in [-180, 180] and latitude in [-90, 90].
ValidPoint(lat, lng) == 0 <= lat /\ lat <= Lat90 /\ 0 <= lng /\ lng <= Lng180

\* $geoNear rejects a point out of bounds and a maxDistance that is not a
\* non-negative number.
GeoNearRejects(lat, lng, maxDistance) ==
    ~ValidPoint(lat, lng) \/ maxDistance = NaN \/ maxDistance < 0

\* { $skip: skip } rejects a negative skip, { $limit: limit } a limit that is
\* not positive.
PageRejects(page, limit) == (page - 1) * limit < 0 \/ limit <= 0

\* radius * 1000
MaxDistance(radius) == IF radius = NaN THEN NaN ELSE radius * 1000

Near(coll, lat, lng, maxDistance) ==
    {d \in coll : Distance(lat, lng, d.lat, d.lng) <= maxDistance}

\* $geoNear: the documents within maxDistance, nearest first, each with its distance.
RECURSIVE GeoNearSeq(_, _, _)
GeoNearSeq(S, lat, lng) ==
    IF S = {} THEN <<>>
    ELSE LET first == CHOOSE d \in S : \A e \in S :
                          \/ Distance(lat, lng, d.lat, d.lng) < Distance(lat, lng, e.lat, e.lng)
                          \/ /\ Distance(lat, lng, d.lat, d.lng) = Distance(lat, lng, e.lat, e.lng)
                             /\ d.id <= e.id
         IN  <<[id |-> first.id, date_added |-> Date(first.date_added),
                distance |-> Distance(lat, lng, first.lat, first.lng)]>>
             \o GeoNearSeq(S \ {first}, lat, lng)

GeoNear(coll, lat, lng, maxDistance) == GeoNearSeq(Near(coll, lat, lng, maxDistance), lat, lng)

\* { $skip: skip }, { $limit: limit }
SkipLimit(items, skip, limit) == SubSeq(items, skip + 1, Min(Len(items), skip + limit))

\* Math.ceil(totalCount / limit)
CeilDiv(a, b) == (a + b - 1) \div b

(***************************************************************************)
(* property.services.js: findNearbyProperties                              *)
(***************************************************************************)
\* calculateTemporalScore(property.date_added) * (1 / (1 + property.distance / 1000)),
\* in units of 100 / ScoreOne.
Relevance(item, t) ==
    (1000 * (calculateTemporalScore(t, DateOf(item.date_added), NoAttributes) \div 100))
        \div (1000 + item.distance)

Scored(items, t) ==
    [i \in 1..Len(items) |->
        [id |-> items[i].id, date_added |-> items[i].date_added,
         distance |-> items[i].distance, score |-> Relevance(items[i], t)]]

\* Array.prototype.sort((a, b) => b.score - a.score): stable, highest score first.
RECURSIVE InsertByScore(_, _)
InsertByScore(sorted, item) ==
    IF sorted = <<>> THEN <<item>>
    ELSE IF Head(sorted).score >= item.score
         THEN <<Head(sorted)>> \o InsertByScore(Tail(sorted), item)
         ELSE <<item>> \o sorted

RECURSIVE SortByScore(_)
SortByScore(items) ==
    IF items = <<>> THEN <<>>
    ELSE InsertByScore(SortByScore(SubSeq(items, 1, Len(items) - 1)), items[Len(items)])

\* The result built on a miss.
QueryResult(coll, lat, lng, radius, page, limit, t) ==
    LET all == GeoNear(coll, lat, lng, MaxDistance(radius))
    IN  [properties |-> SortByScore(Scored(SkipLimit(all, (page - 1) * limit, limit), t)),
         totalCount |-> Len(all),
         totalPages |-> CeilDiv(Len(all), limit),
         currentPage |-> page,
         metadata |-> [queryTimestamp |-> Date(t),
                       coordinates |-> [latitude |-> lat, longitude |-> lng],
                       radius |-> radius]]

\* The { $limit: 10 } query of neighbor warming and the payload cached from it.
WarmItems(coll, lat, lng, radius) ==
    SkipLimit(GeoNear(coll, lat, lng, MaxDistance(radius)), 0, 10)

WarmPayload(items, t) ==
    [properties |-> items, metadata |-> [queryTimestamp |-> Date(t)]]

WarmStoreNone(store, neighbors, radius, items, n, t) == store

\* The keys after the first n neighbors have been warmed.
RECURSIVE WarmStore(_, _, _, _, _, _)
WarmStore(store, neighbors, radius, items, n, t) ==
    IF n = 0 \/ items = <<>> THEN store
    ELSE PutStore(WarmStore(store, neighbors, radius, items, n - 1, t),
                  CacheKey(neighbors[n], radius), WarmPayload(items, t), t, NoAttributes, t)

RECURSIVE WarmIndex(_, _, _, _, _, _)
WarmIndex(index, neighbors, radius, items, n, t) ==
    IF n = 0 \/ items = <<>> THEN index
    ELSE PutIndex(WarmIndex(index, neighbors, radius, items, n - 1, t),
                  CacheKey(neighbors[n], radius), t, NoAttributes, t)

(***************************************************************************)
(* proximity-cache.service.js: cacheOptimizer                              *)
(***************************************************************************)
\* Map.get(geohash) || 0
Count(counter, k) == IF k \in DOMAIN counter THEN counter[k] ELSE 0

\* Whether optimizeIfNeeded resets the counters ("Analyze every 100 requests").
Analyze(hits, misses) == hits + misses >= 100

\* hitCounter and missCounter after trackHit(k).
HitsAfterHit(hits, misses, k) ==
    (k :> (IF Analyze(Count(hits, k) + 1, Count(misses, k)) THEN 0 ELSE Count(hits, k) + 1)) @@ hits

MissesAfterHit(hits, misses, k) ==
    IF Analyze(Count(hits, k) + 1, Count(misses, k)) THEN (k :> 0) @@ misses ELSE misses

\* hitCounter and missCounter after trackMiss(k).
MissesAfterMiss(hits, misses, k) ==
    (k :> (IF Analyze(Count(hits, k), Count(misses, k) + 1) THEN 0 ELSE Count(misses, k) + 1)) @@ misses

HitsAfterMiss(hits, misses, k) ==
    IF Analyze(Count(hits, k), Count(misses, k) + 1) THEN (k :> 0) @@ hits ELSE hits

\* hitRatio < 0.3 for the counters of an analysis, the case in which
\* adjustCacheStrategy calls client.expire (hitRatio < 0.5 holds with it).
Adjusts(hits, misses) == Analyze(hits, misses) /\ 10 * hits < 3 * (hits + misses)

\* `geo:${geohash}:*`, the name adjustCacheStrategy passes to client.expire,
\* for the argument trackHit / trackMiss was called with.
ExpireName(geohash) == [pattern |-> geohash]

\* client.expire(name, seconds): EXPIRE sets the TTL of the key of that name, if
\* there is one; the name is not matched as a pattern.
Expire(store, name, seconds, t) ==
    IF name \in DOMAIN store
    THEN [store EXCEPT ![name] = [@ EXCEPT !.ttl = seconds, !.setAt = t]]
    ELSE store

\* The counters optimizeIfNeeded reads in trackHit(k) / trackMiss(k).
HitsRead(kind, hits, k) == Count(hits, k) + (IF kind = "hit" THEN 1 ELSE 0)

MissesRead(kind, misses, k) == Count(misses, k) + (IF kind = "miss" THEN 1 ELSE 0)

\* Whether trackHit(k) / trackMiss(k) rejects: client.expire is called and fails.
TrackThrows(kind, hits, misses, k, kvFail) ==
    kvFail = "expire" /\ Adjusts(HitsRead(kind, hits, k), MissesRead(kind, misses, k))

\* hitCounter and missCounter after trackHit(k) / trackMiss(k); a rejected
\* client.expire leaves optimizeIfNeeded before its reset of the counters.
HitCounterAfter(kind, hits, misses, k, kvFail) ==
    IF TrackThrows(kind, hits, misses, k, kvFail)
    THEN (IF kind = "hit" THEN (k :> Count(hits, k) + 1) @@ hits ELSE hits)
    ELSE IF kind = "hit" THEN HitsAfterHit(hits, misses, k) ELSE HitsAfterMiss(hits, misses, k)

MissCounterAfter(kind, hits, misses, k, kvFail) ==
    IF TrackThrows(kind, hits, misses, k, kvFail)
    THEN (IF kind = "miss" THEN (k :> Count(misses, k) + 1) @@ misses ELSE misses)
    ELSE IF kind = "hit" THEN MissesAfterHit(hits, misses, k) ELSE MissesAfterMiss(hits, misses, k)

\* The keys after trackHit(k) / trackMiss(k).
StoreAfterTrack(store, kind, hits, misses, k, kvFail, t) ==
    IF Adjusts(HitsRead(kind, hits, k), MissesRead(kind, misses, k)) /\ kvFail # "expire"
    THEN Expire(store, ExpireName(k), 1800, t)
    ELSE store

RECURSIVE SumOver(_, _)
SumOver(counter, S) ==
    IF S = {} THEN 0
    ELSE LET k == CHOOSE x \in S : TRUE IN counter[k] + SumOver(counter, S \ {k})

\* The cache events recorded so far.
Events == SumOver(hitCounter, DOMAIN hitCounter) + SumOver(missCounter, DOMAIN missCounter)

(***************************************************************************)
(* proximity-cache.service.js: radiusCache.invalidateRadius                *)
(***************************************************************************)
\* An invalidation of the encoding cell alone.
CellsToInvalidateCenter(lat, lng, radius) ==
    {GeohashEncode(lat, lng, getPrecision(radius))}

\* cellsToInvalidate = [geohash, ...neighbors]
CellsToInvalidate(lat, lng, radius) ==
    LET geohash == GeohashEncode(lat, lng, getPrecision(radius))
    IN  {geohash} \cup {GeohashNeighbors(geohash)[i] : i \in 1..8}

\* The keys after the loop: for each cell, client.del(client.keys(`geo:${cell}:*`)).
\* cellsToInvalidate in the order of the loop.
CellsInOrder(lat, lng, radius) ==
    LET geohash == GeohashEncode(lat, lng, getPrecision(radius))
    IN  <<geohash>> \o GeohashNeighbors(geohash)

\* The keys when the loop has handled the first n cells and stops there,
\* client.keys or client.del of cell n + 1 having failed.
InvalidateStoreUpTo(store, lat, lng, radius, n) ==
    Del(store, UNION {KeysMatching(store, CellsInOrder(lat, lng, radius)[i]) : i \in 1..n})

InvalidateStore(store, lat, lng, radius) ==
    Del(store, UNION {KeysMatching(store, cell) : cell \in CellsToInvalidate(lat, lng, radius)})

(***************************************************************************)
(* Inputs.                                                                 *)
(***************************************************************************)
\* 0 N 0 E, the origin of the sample area.
PointA == [lat |-> 65536, lng |-> 131072]

\* Three precision-5 cells north of PointA.
PointFar == [lat |-> 65632, lng |-> 131072]

\* 95 N: not a latitude.
PointOut == [lat |-> 134713, lng |-> 131072]

\* The requests: a point, and the radius of the query string if it has one.
Requests ==
    {[point |-> PointA, hasRadius |-> TRUE, radius |-> 2],
     [point |-> PointA, hasRadius |-> TRUE, radius |-> 10],
     [point |-> PointA, hasRadius |-> FALSE, radius |-> 0],
     [point |-> PointOut, hasRadius |-> TRUE, radius |-> 2]}

PropertyPoints == {PointA}

PageChoices == {1}

LimitChoices == {50}

\* Which doc-store call of a nearby query fails: 0 none, 1 the count, 2 the page,
\* 2 + j the warming query of neighbor j.
FailChoices == {0, 2, 6}

\* The calls of invalidateRadius.
Invalidations ==
    {[point |-> PointA, radius |-> 2], [point |-> PointA, radius |-> 10],
     [point |-> PointFar, radius |-> 10]}

\* Which cell of addProperty's invalidation fails: 0 none, 1 the center
\* (nothing is deleted), 2 the first neighbor (the center's keys are deleted).
InvalidateFailChoices == {0, 1, 2}

AllBoosts == [isPremium |-> TRUE, isFeatured |-> TRUE, isVerified |-> TRUE]

\* The keys and payloads of direct calls of the cache API.
ApiKeys == {generateKey(PointFar.lat, PointFar.lng, 10)}

ApiValues == {WarmPayload(<<>>, 0)}

(***************************************************************************)
(* The state machine.                                                      *)
(***************************************************************************)
Empty == [k \in {} |-> 0]

Init ==
    /\ now = 0
    /\ kv = Empty
    /\ scoreIndex = Empty
    /\ docs = {}
    /\ hitCounter = Empty
    /\ missCounter = Empty
    /\ cacheHits = 0
    /\ cacheHitCount = 0
    /\ awaiting = Empty
    /\ resp = [op |-> "none"]

\* Time passes; Redis drops the keys whose TTL has run out.
Tick(maxTime) ==
    /\ now < maxTime
    /\ now' = now + 1
    /\ kv' = [k \in {x \in DOMAIN kv : ~Expired(kv[x], now + 1)} |-> kv[k]]
    /\ resp' = [op |-> "tick"]
    /\ UNCHANGED <<scoreIndex, docs, hitCounter, missCounter, cacheHits, cacheHitCount, awaiting>>

\* setCacheWithTemporalDecay(key, value, dateAdded, propertyAttributes)
PutCall(key, value, dateAdded, attrs) ==
    /\ kv' = PutStore(kv, key, value, dateAdded, attrs, now)
    /\ scoreIndex' = PutIndex(scoreIndex, key, dateAdded, attrs, now)
    /\ resp' = [op |-> "put", key |-> key, value |-> value, result |-> TRUE]
    /\ UNCHANGED <<now, docs, hitCounter, missCounter, cacheHits, cacheHitCount, awaiting>>

\* getCacheWithTemporalCheck(key)
GetCall(key) ==
    /\ cacheHits < MaxHits
    /\ kv' = GetStore(kv, key, now)
    /\ scoreIndex' = GetIndex(kv, scoreIndex, key, now)
    /\ cacheHits' = IF key \in DOMAIN kv THEN cacheHits + 1 ELSE cacheHits
    /\ resp' = [op |-> "get", key |-> key, result |-> GetResult(kv, key, now),
                evicted |-> IsStale(kv, key, now)]
    /\ UNCHANGED <<now, docs, hitCounter, missCounter, cacheHitCount, awaiting>>

\* radiusCache.invalidateRadius(lat, lng, radius)
InvalidateCall(lat, lng, radius) ==
    /\ kv' = InvalidateStore(kv, lat, lng, radius)
    /\ resp' = [op |-> "invalidateRadius", lat |-> lat, lng |-> lng, radius |-> radius]
    /\ UNCHANGED <<now, scoreIndex, docs, hitCounter, missCounter, cacheHits, cacheHitCount, awaiting>>

\* threshold = 0.3
DefaultThreshold == (3 * ScoreOne) \div 10

\* cleanupTemporalCache(threshold)
CleanupCall(threshold) ==
    LET lowScoreKeys == ZRangeByScore(scoreIndex, 0, threshold)
    IN  /\ kv' = Del(kv, lowScoreKeys)
        /\ scoreIndex' = ZRemRangeByScore(scoreIndex, 0, threshold)
        /\ resp' = [op |-> "cleanup", threshold |-> threshold,
                    result |-> Cardinality(lowScoreKeys)]
        /\ UNCHANGED <<now, docs, hitCounter, missCounter, cacheHits, cacheHitCount, awaiting>>

\* updateTemporalScores()
UpdateCall ==
    /\ scoreIndex' = [k \in DOMAIN scoreIndex \cap DOMAIN kv |-> CurrentScore(kv[k].json, now)]
    /\ resp' = [op |-> "update"]
    /\ UNCHANGED <<now, kv, docs, hitCounter, missCounter, cacheHits, cacheHitCount, awaiting>>

\* getTopRankedProperties(limit): the data of the ranked keys that are there.
TopResult(store, index, limit) ==
    LET topKeys == ZRevRangeByScore(index, limit)
        properties == [i \in 1..Len(topKeys) |->
                          IF topKeys[i] \in DOMAIN store THEN store[topKeys[i]].json.data
                          ELSE Null]
    IN  SelectSeq(properties, Truthy)

TopCall(limit) ==
    /\ resp' = [op |-> "top", limit |-> limit, result |-> TopResult(kv, scoreIndex, limit)]
    /\ UNCHANGED <<now, kv, scoreIndex, docs, hitCounter, missCounter, cacheHits, cacheHitCount, awaiting>>

\* POST /: addProperty(propertyData)
\* invalidateFailsAt is the cell of the invalidation loop whose KV call fails
\* (0: none).
AddProperty(point, dateAdded, saveFails, invalidateFailsAt, maxDocs) ==
    /\ Cardinality(docs) < maxDocs
    /\ IF saveFails
       THEN /\ resp' = [op |-> "addProperty", status |-> 500, lat |-> point.lat, lng |-> point.lng]
            /\ UNCHANGED <<now, kv, scoreIndex, docs, hitCounter, missCounter, cacheHits, cacheHitCount, awaiting>>
       ELSE /\ docs' = docs \cup {[id |-> Cardinality(docs) + 1, lat |-> point.lat,
                                   lng |-> point.lng, date_added |-> dateAdded]}
            /\ kv' = IF invalidateFailsAt = 0
                     THEN InvalidateStore(kv, point.lat, point.lng, 10)
                     ELSE InvalidateStoreUpTo(kv, point.lat, point.lng, 10, invalidateFailsAt - 1)
            /\ resp' = [op |-> "addProperty", status |-> IF invalidateFailsAt = 0 THEN 201 ELSE 500,
                        lat |-> point.lat, lng |-> point.lng]
            /\ UNCHANGED <<now, scoreIndex, hitCounter, missCounter, cacheHits, cacheHitCount, awaiting>>

Undefined == [type |-> "undefined"]

\* result.name of a destructuring: undefined when the object has no such field.
Field(record, name) == IF name \in DOMAIN record THEN record[name] ELSE Undefined

\* page < totalPages; a comparison with undefined is false.
HasMore(result, page) ==
    IF "totalPages" \in DOMAIN result THEN page < result.totalPages ELSE FALSE

\* res.json({properties, totalCount, totalPages, currentPage: pagination.page, hasMore}):
\* the body as the client parses it.
ResponseBody(result, page) ==
    [properties |-> JsonItems(result.properties),
     totalCount |-> Field(result, "totalCount"),
     totalPages |-> Field(result, "totalPages"),
     currentPage |-> page,
     hasMore |-> HasMore(result, page)]

\* The request a response answers.
Request(given, point, hasRadius, page, limit) ==
    [given |-> given, lat |-> point.lat, lng |-> point.lng, hasRadius |-> hasRadius,
     page |-> page, limit |-> limit]

\* Number.parseFloat(radius) of the query string's radius, undefined when it has none.
\* findNearbyProperties(latitude, longitude, radius = 5, ...) receives this number:
\* its default applies to undefined only.
ParseRadius(hasRadius, radius) == IF hasRadius THEN radius ELSE NaN

\* GET /nearby: the route and findNearbyProperties, neighbor warming included.
\* given is whether the query string has both lat and lng; failAt is the
\* doc-store call that fails and kvFail the KV command that fails ("none": no
\* failure).
NearbyHandler(given, point, hasRadius, rawRadius, page, limit, failAt, kvFail) ==
    \E key \in {generateKey(point.lat, point.lng, ParseRadius(hasRadius, rawRadius))} :
    \E cached \in {IF kvFail = "get" THEN Null ELSE GetResult(kv, key, now)} :
    \E kind \in {IF Truthy(cached) THEN "hit" ELSE "miss"} :
    LET req == Request(given, point, hasRadius, page, limit)
        radius == ParseRadius(hasRadius, rawRadius)
        kv0 == IF kvFail \in {"get", "del"} THEN kv ELSE GetStore(kv, key, now)
        index1 == IF kvFail \in {"get", "del", "zRem"} THEN scoreIndex
                  ELSE GetIndex(kv, scoreIndex, key, now)
        throws == TrackThrows(kind, hitCounter, missCounter, key, kvFail)
        kv1 == StoreAfterTrack(kv0, kind, hitCounter, missCounter, key, kvFail, now)
        maxDistance == MaxDistance(radius)
        failsAt == IF GeoNearRejects(point.lat, point.lng, maxDistance) \/ failAt = 1 THEN 1
                   ELSE IF PageRejects(page, limit) THEN 2
                   ELSE failAt
        result == QueryResult(docs, point.lat, point.lng, radius, page, limit, now)
        kv2 == IF kvFail = "setEx" THEN kv1 ELSE PutStore(kv1, key, result, now, NoAttributes, now)
        index2 == IF kvFail \in {"setEx", "zAdd"} THEN index1
                  ELSE PutIndex(index1, key, now, NoAttributes, now)
        neighbors == getNeighbors(point.lat, point.lng, radius)
        items == WarmItems(docs, point.lat, point.lng, radius)
        warmed == IF failsAt = 0 THEN 8 ELSE failsAt - 3
    IN  IF ~given
        THEN /\ resp' = [op |-> "nearby", req |-> req, status |-> 400]
             /\ UNCHANGED <<now, kv, scoreIndex, docs, hitCounter, missCounter, cacheHits, cacheHitCount, awaiting>>
        ELSE /\ cacheHits' = IF kvFail # "get" /\ key \in DOMAIN kv THEN cacheHits + 1 ELSE cacheHits
             /\ hitCounter' = HitCounterAfter(kind, hitCounter, missCounter, key, kvFail)
             /\ missCounter' = MissCounterAfter(kind, hitCounter, missCounter, key, kvFail)
             /\ IF throws
                THEN /\ kv' = kv1
                     /\ scoreIndex' = index1
                     /\ resp' = [op |-> "nearby", req |-> req, status |-> 500,
                                 hit |-> kind = "hit", key |-> key, queries |-> 0,
                                 kvFail |-> kvFail]
                ELSE IF kind = "hit"
                THEN /\ kv' = kv1
                     /\ scoreIndex' = index1
                     /\ resp' = [op |-> "nearby", req |-> req, status |-> 200, hit |-> TRUE,
                                 key |-> key, result |-> cached, queries |-> 0,
                                 body |-> ResponseBody(cached, page)]
                ELSE IF failsAt \in {1, 2}
                THEN /\ kv' = kv1
                     /\ scoreIndex' = index1
                     /\ resp' = [op |-> "nearby", req |-> req, status |-> 500,
                                 hit |-> FALSE, key |-> key,
                                 maxDistance |-> maxDistance, queries |-> failsAt]
                ELSE /\ kv' = IF kvFail = "setEx" THEN kv2
                              ELSE WarmStore(kv2, neighbors, radius, items, warmed, now)
                     /\ scoreIndex' = IF kvFail \in {"setEx", "zAdd"} THEN index2
                                      ELSE WarmIndex(index2, neighbors, radius, items, warmed, now)
                     /\ resp' = IF failsAt = 0
                                THEN [op |-> "nearby", req |-> req, status |-> 200,
                                      hit |-> FALSE, key |-> key,
                                      maxDistance |-> maxDistance,
                                      result |-> result, queries |-> 10,
                                      body |-> ResponseBody(result, page)]
                                ELSE [op |-> "nearby", req |-> req, status |-> 500,
                                      hit |-> FALSE, key |-> key,
                                      maxDistance |-> maxDistance,
                                      queries |-> failsAt]
             /\ UNCHANGED <<now, docs, cacheHitCount, awaiting>>

\* GET /nearby while the KV store answers every command.
Nearby(given, point, hasRadius, rawRadius, page, limit, failAt) ==
    /\ Events < MaxRequests
    /\ cacheHits < MaxHits
    /\ NearbyHandler(given, point, hasRadius, rawRadius, page, limit, failAt, "none")

Next ==
    \/ Tick(MaxTime)
    \/ \E key \in ApiKeys, value \in ApiValues, dateAdded \in {now, -12} :
          PutCall(key, value, dateAdded, NoAttributes)
    \/ \E key \in ApiKeys : GetCall(key)
    \/ \E c \in Invalidations : InvalidateCall(c.point.lat, c.point.lng, c.radius)
    \/ CleanupCall(DefaultThreshold)
    \/ UpdateCall
    \/ \E point \in PropertyPoints, saveFails \in BOOLEAN, invalidateFailsAt \in InvalidateFailChoices :
          AddProperty(point, now, saveFails, invalidateFailsAt, MaxDocs)
    \/ \E given \in BOOLEAN, r \in Requests, page \in PageChoices, limit \in LimitChoices,
          failAt \in FailChoices :
          Nearby(given, r.point, r.hasRadius, r.radius, page, limit, failAt)

Spec == Init /\ [][Next]_vars

(***************************************************************************)
(* proxmity-cache/nodejs/src/utils/validation.js                           *)
(***************************************************************************)
\* -5000 and 5000 degrees of latitude, -100000 and 100000 degrees of longitude,
\* in units: the first unit below, and the first above, each bound.
LatBelowMin == -3575354
LatAboveMax == 3706425
LngBelowMin == -72686706
LngAboveMax == 72948850

\* validateCoordinates(latitude, longitude).isValid
validateCoordinates(lat, lng) ==
    ~(lat <= LatBelowMin \/ lat >= LatAboveMax) /\ ~(lng <= LngBelowMin \/ lng >= LngAboveMax)

(***************************************************************************)
(* validation.js: validatePagination                                       *)
(***************************************************************************)
\* validatePagination(page, limit).isValid: parseInt(page) || 1 and
\* parseInt(limit) || 100 replace a 0 by the default.
validatePagination(page, limit) ==
    LET pageNum == IF page = 0 THEN 1 ELSE page
        limitNum == IF limit = 0 THEN 100 ELSE limit
    IN  ~(pageNum < 1) /\ ~(limitNum < 1 \/ limitNum > 1000)

PaginationChoices == {-1, 0, 1, 2, 50, 1000, 1001}

(***************************************************************************)
(* The pure functions, applied to inputs around their boundaries.          *)
(***************************************************************************)
LatChoices == {LatBelowMin, -1, 0, 65536, 65539, Lat90, Lat90 + 1, 134713, LatAboveMax}

LngChoices == {LngBelowMin, -1, 0, 131072, Lng180, Lng180 + 1}

KeyRadiusChoices == {-1, 0, 1, 2, 4, 5, 6, 10, NaN}

\* organizeCache.generateKey(lat, lng, radius)
GenerateKeyCall(lat, lng, radius) ==
    /\ resp' = [op |-> "generateKey", lat |-> lat, lng |-> lng, radius |-> radius,
                result |-> generateKey(lat, lng, radius)]
    /\ UNCHANGED <<now, kv, scoreIndex, docs, hitCounter, missCounter, cacheHits, cacheHitCount, awaiting>>

\* validateCoordinates(latitude, longitude)
ValidateCall(lat, lng) ==
    /\ resp' = [op |-> "validateCoordinates", lat |-> lat, lng |-> lng,
                isValid |-> validateCoordinates(lat, lng)]
    /\ UNCHANGED <<now, kv, scoreIndex, docs, hitCounter, missCounter, cacheHits, cacheHitCount, awaiting>>

\* validatePagination(page, limit)
ValidatePaginationCall(page, limit) ==
    /\ resp' = [op |-> "validatePagination", page |-> page, limit |-> limit,
                isValid |-> validatePagination(page, limit)]
    /\ UNCHANGED <<now, kv, scoreIndex, docs, hitCounter, missCounter, cacheHits, cacheHitCount, awaiting>>

NextPure ==
    \/ \E lat \in LatChoices, lng \in LngChoices, radius \in KeyRadiusChoices :
          GenerateKeyCall(lat, lng, radius)
    \/ \E lat \in LatChoices, lng \in LngChoices : ValidateCall(lat, lng)
    \/ \E page \in PaginationChoices, limit \in PaginationChoices :
          ValidatePaginationCall(page, limit)

SpecPure == Init /\ [][NextPure]_vars

\* The cache API alone, over the days a bucket dated in the future lives.
NextDecay ==
    \/ Tick(MaxDecayTime)
    \/ \E key \in ApiKeys, value \in ApiValues, dateAdded \in {now, -12, 42},
          attrs \in {NoAttributes, AllBoosts} : PutCall(key, value, dateAdded, attrs)
    \/ \E key \in ApiKeys : GetCall(key)
    \/ CleanupCall(DefaultThreshold)
    \/ UpdateCall

SpecDecay == Init /\ [][NextDecay]_vars

(***************************************************************************)
(* The query path of the router over a doc store of several properties:    *)
(* GET /nearby with its pagination, neighbor warming and the hits on the   *)
(* keys warming wrote, GET /coordinate-range-indexing and GET /cacheStats. *)
(***************************************************************************)
\* The precision-5 cell north of PointA's.
PointNorth == [lat |-> 65568, lng |-> 131072]

\* 765 m from PointA, in the same cell.
PointNear == [lat |-> 65539, lng |-> 131076]

\* Two precision-5 cells north of PointA, one north of PointNorth.
PointNorth2 == [lat |-> 65600, lng |-> 131072]

QueryPropertyPoints == {PointA, PointNear, PointNorth2}

\* The nearby requests: a point, a radius, page and limit of the query string.
PagedRequests ==
    {[point |-> PointA, radius |-> 10, page |-> 1, limit |-> 50],
     [point |-> PointA, radius |-> 10, page |-> 2, limit |-> 50],
     [point |-> PointA, radius |-> 10, page |-> 1, limit |-> 1],
     [point |-> PointA, radius |-> 10, page |-> 1, limit |-> 1000],
     [point |-> PointA, radius |-> 10, page |-> 1, limit |-> 1001],
     [point |-> PointA, radius |-> 10, page |-> 1, limit |-> 0],
     [point |-> PointA, radius |-> 10, page |-> 0, limit |-> 50],
     [point |-> PointNorth, radius |-> 10, page |-> 1, limit |-> 50]}

\* GET /coordinate-range-indexing: coordinateRangeIndexing calls getCache, which
\* property.services.js does not import: the call throws a ReferenceError
\* before any cache or doc-store work, and the route answers 500.
CoordinateRange(given) ==
    /\ resp' = [op |-> "coordinateRange", status |-> IF given THEN 500 ELSE 400]
    /\ UNCHANGED <<now, kv, scoreIndex, docs, hitCounter, missCounter, cacheHits, cacheHitCount, awaiting>>

\* GET /cacheStats: cacheHits is getCacheHitCount().
CacheStats ==
    /\ resp' = [op |-> "cacheStats", cacheHits |-> cacheHitCount]
    /\ UNCHANGED <<now, kv, scoreIndex, docs, hitCounter, missCounter, cacheHits, cacheHitCount, awaiting>>

NextQuery ==
    \/ Tick(MaxTime)
    \/ \E point \in QueryPropertyPoints, dateAdded \in {now, -12} :
          AddProperty(point, dateAdded, FALSE, 0, MaxQueryDocs)
    \/ \E r \in PagedRequests : Nearby(TRUE, r.point, TRUE, r.radius, r.page, r.limit, 0)
    \/ \E given \in BOOLEAN : CoordinateRange(given)
    \/ CacheStats

SpecQuery == Init /\ [][NextQuery]_vars

(***************************************************************************)
(* The optimizer over a whole analysis window: cacheOptimizer.trackHit and *)
(* trackMiss called for a key as findNearbyProperties calls them, and      *)
(* GET /nearby while a command of the KV store fails.                      *)
(***************************************************************************)
\* The key of the requests at PointA with radius 10, and the key of the same
\* cell for radius 6 (both radii map to precision 5).
OptimizerKey == generateKey(PointA.lat, PointA.lng, 10)

OtherRadiusKey == generateKey(PointA.lat, PointA.lng, 6)

\* The KV command that fails during a request.  No bucket of these requests is
\* stale, so the del and zRem of an eviction are not called.
KvFailChoices == {"none", "get", "setEx", "zAdd", "expire"}

\* await cacheOptimizer.trackHit(key) / trackMiss(key)
TrackCall(kind, key, kvFail, maxEvents) ==
    /\ Count(hitCounter, key) + Count(missCounter, key) < maxEvents
    /\ hitCounter' = HitCounterAfter(kind, hitCounter, missCounter, key, kvFail)
    /\ missCounter' = MissCounterAfter(kind, hitCounter, missCounter, key, kvFail)
    /\ kv' = StoreAfterTrack(kv, kind, hitCounter, missCounter, key, kvFail, now)
    /\ resp' = [op |-> "track", kind |-> kind, key |-> key,
                threw |-> TrackThrows(kind, hitCounter, missCounter, key, kvFail)]
    /\ UNCHANGED <<now, scoreIndex, docs, cacheHits, cacheHitCount, awaiting>>

\* GET /nearby?lat=..&lng=..&radius=10 at PointA.
OptimizerNearby(kvFail) ==
    /\ Count(hitCounter, OptimizerKey) + Count(missCounter, OptimizerKey) < MaxKeyEvents
    /\ cacheHits < MaxHits
    /\ NearbyHandler(TRUE, PointA, TRUE, 10, 1, 50, 0, kvFail)

NextOptimizer ==
    \/ \E kind \in {"hit", "miss"}, kvFail \in {"none", "expire"} :
          TrackCall(kind, OptimizerKey, kvFail, MaxKeyEvents)
    \/ \E kind \in {"hit", "miss"} : TrackCall(kind, OtherRadiusKey, "none", MaxOtherEvents)
    \/ \E kvFail \in KvFailChoices : OptimizerNearby(kvFail)

SpecOptimizer == Init /\ [][NextOptimizer]_vars

(***************************************************************************)
(* The optimizer under concurrent request handlers.  A handler runs until  *)
(* it awaits; the await of optimizeIfNeeded (line 94) lets the event loop  *)
(* run other handlers before the counters are reset (lines 98-99).         *)
(***************************************************************************)
\* The handlers suspended in optimizeIfNeeded.
Suspended == SumOver(awaiting, DOMAIN awaiting)

\* trackHit(key) / trackMiss(key) up to its return or, with hitRatio < 0.5, up
\* to await this.adjustCacheStrategy(geohash, hitRatio).
TrackBegin(kind, key) ==
    \E h \in {HitsRead(kind, hitCounter, key)} :
    \E m \in {MissesRead(kind, missCounter, key)} :
        /\ Suspended < MaxHandlers
        /\ IF Analyze(h, m) /\ 2 * h < h + m
           THEN /\ hitCounter' = (key :> h) @@ hitCounter
                /\ missCounter' = (key :> m) @@ missCounter
                /\ awaiting' = (key :> Count(awaiting, key) + 1) @@ awaiting
                /\ kv' = IF Adjusts(h, m) THEN Expire(kv, ExpireName(key), 1800, now) ELSE kv
           ELSE /\ hitCounter' = HitCounterAfter(kind, hitCounter, missCounter, key, "none")
                /\ missCounter' = MissCounterAfter(kind, hitCounter, missCounter, key, "none")
                /\ UNCHANGED <<awaiting, kv>>
        /\ resp' = [op |-> "trackBegin", kind |-> kind, key |-> key,
                    evaluated |-> Analyze(h, m)]
        /\ UNCHANGED <<now, scoreIndex, docs, cacheHits, cacheHitCount>>

\* A suspended optimizeIfNeeded(key) resumes: the two resets and the return.
TrackResume(key) ==
    /\ Count(awaiting, key) > 0
    /\ hitCounter' = (key :> 0) @@ hitCounter
    /\ missCounter' = (key :> 0) @@ missCounter
    /\ awaiting' = (key :> awaiting[key] - 1) @@ awaiting
    /\ resp' = [op |-> "trackResume", key |-> key]
    /\ UNCHANGED <<now, kv, scoreIndex, docs, cacheHits, cacheHitCount>>

NextConcurrent ==
    \/ \E kind \in {"hit", "miss"} : TrackBegin(kind, OptimizerKey)
    \/ TrackResume(OptimizerKey)

SpecConcurrent == Init /\ [][NextConcurrent]_vars

(***************************************************************************)
(* The ranking API of decay.service.js over two keys: cleanupTemporalCache,*)
(* updateTemporalScores and getTopRankedProperties, with buckets that      *)
(* expire and leave their entries in the sorted set.                       *)
(***************************************************************************)
\* The puts: a key, its payload and the date the bucket is dated with.
RankPuts ==
    {[key |-> generateKey(PointFar.lat, PointFar.lng, 10), value |-> WarmPayload(<<>>, 0)],
     [key |-> generateKey(PointA.lat, PointA.lng, 10), value |-> WarmPayload(<<>>, -12)]}

\* 0.3, the score of a bucket dated 12 days back, and 1.0.
Thresholds == {DefaultThreshold, calculateTemporalScore(0, -12, NoAttributes), ScoreOne}

TopLimits == {0, 1, 2, 10}

NextRank ==
    \/ Tick(MaxDecayTime)
    \/ \E put \in RankPuts, dateAdded \in {now, -12, 42} :
          PutCall(put.key, put.value, dateAdded, NoAttributes)
    \/ \E threshold \in Thresholds : CleanupCall(threshold)
    \/ UpdateCall
    \/ \E limit \in TopLimits : TopCall(limit)

SpecRank == Init /\ [][NextRank]_vars

(***************************************************************************)
(* The properties.                                                         *)
(***************************************************************************)
\* C1: in every reachable state, every live cache key has its entry in the
\* sorted set 'temporal_scores' (a sorted set holds a member once).
C1_LiveKeysIndexed == \A k \in DOMAIN kv : k \in DOMAIN scoreIndex

\* A cleanup has deleted keys and their entries while another key stays live.
C1_Witness ==
    /\ resp.op = "cleanup"
    /\ resp.result > 0
    /\ DOMAIN kv # {}

\* C2: after invalidateRadius(lat, lng, r), no key of the encoding cell or of
\* its 8 neighbors remains in 'temporal_scores'.
C2_IndexEntriesRemoved ==
    resp.op = "invalidateRadius" =>
        LET cell == GeohashEncode(resp.lat, resp.lng, getPrecision(resp.radius))
            set == {cell} \cup {GeohashNeighbor(cell, NeighborDirs[i]) : i \in 1..8}
        IN  \A k \in DOMAIN scoreIndex : k.hash \notin set

\* C3: invalidateRadius(lat, lng, r) deletes every key present whose cell is
\* the encoding cell or one of its 8 neighbors, so that a get of it is a miss,
\* and leaves the keys of all other cells as they were.
C3_InvalidateDeletesCells ==
    [][resp'.op = "invalidateRadius" =>
        \A cell \in {GeohashEncode(resp'.lat, resp'.lng, getPrecision(resp'.radius))} :
        \A set \in {{cell} \cup {GeohashNeighbor(cell, NeighborDirs[i]) : i \in 1..8}} :
            /\ \A k \in DOMAIN kv :
                  IF k.hash \in set
                  THEN k \notin DOMAIN kv' /\ GetResult(kv', k, now') = Null
                  ELSE k \in DOMAIN kv' /\ kv'[k] = kv[k]
            /\ DOMAIN kv' \subseteq DOMAIN kv]_vars

\* An invalidation has deleted the key of a neighbor of its encoding cell (the
\* key's entry in the sorted set is still there, and no TTL has run out yet)
\* and has left the key of another cell live.
C3_Witness ==
    /\ resp.op = "invalidateRadius"
    /\ now = 0
    /\ LET cell == GeohashEncode(resp.lat, resp.lng, getPrecision(resp.radius))
       IN  \E k \in DOMAIN scoreIndex \ DOMAIN kv :
               \E i \in 1..8 : k.hash = GeohashNeighbor(cell, NeighborDirs[i])
    /\ DOMAIN kv # {}

\* C4: after addProperty has succeeded at (lat, lng), the next nearby query at
\* those coordinates is not served from the cache.
C4_NearbyAfterAddMisses ==
    [][(/\ resp.op = "addProperty"
        /\ resp.status = 201
        /\ resp'.op = "nearby"
        /\ resp'.status = 200
        /\ resp'.req.lat = resp.lat
        /\ resp'.req.lng = resp.lng) => ~resp'.hit]_vars

\* C5: a get that finds a bucket whose recomputed score is below 0.7 times the
\* stored score returns a miss and leaves neither the key nor its entry in the
\* sorted set; a get that finds any other bucket returns its data and deletes
\* nothing.
C5_DegradedGetEvicts ==
    [][(resp'.op = "get" /\ resp'.key \in DOMAIN kv) =>
        LET k == resp'.key
        IN  IF Degraded(CurrentScore(kv[k].json, now), kv[k].json.score)
            THEN /\ resp'.result = Null
                 /\ k \notin DOMAIN kv'
                 /\ k \notin DOMAIN scoreIndex'
            ELSE /\ resp'.result = kv[k].json.data
                 /\ kv' = kv
                 /\ scoreIndex' = scoreIndex]_vars

\* A get has evicted a degraded bucket.
C5_Witness == resp.op = "get" /\ resp.evicted /\ resp.result = Null

\* C6 as stated: a get right after put(k, v) returns exactly v.
C6_GetReturnsExactlyPut ==
    [][(resp.op = "put" /\ resp'.op = "get" /\ resp'.key = resp.key) =>
        resp'.result = resp.value]_vars

\* C6: put(k, v) stores JSON.parse(JSON.stringify(v)) under k, a step that is
\* not a put changes the data of no key it leaves live, and a get of a live
\* key whose score has not degraded returns the data stored: get(k) after
\* put(k, v) returns v as JSON carries it.
C6_GetReturnsJsonOfPut ==
    [][/\ resp'.op = "put" =>
            /\ resp'.key \in DOMAIN kv'
            /\ kv'[resp'.key].json.data = JsonRoundTrip(resp'.value)
       /\ resp'.op # "put" =>
            \A k \in DOMAIN kv \cap DOMAIN kv' : kv'[k].json.data = kv[k].json.data
       /\ (resp'.op = "get" /\ resp'.key \in DOMAIN kv /\ ~resp'.evicted) =>
            resp'.result = kv[resp'.key].json.data
       /\ (resp.op = "put" /\ resp'.op = "get" /\ resp'.key = resp.key) =>
            resp'.result = JsonRoundTrip(resp.value)]_vars

\* A get has hit after time has passed since the put.
C6_Witness == resp.op = "get" /\ resp.result # Null /\ ~resp.evicted /\ now > 0

\* C7: every bucket written has a TTL within [1800 s, 7200 s].
C7_TtlWithinBounds == \A k \in DOMAIN kv : 1800 <= kv[k].ttl /\ kv[k].ttl <= 7200

\* C8: the key of (lat, lng, radius) carries the radius and the geohash of
\* (lat, lng) of length 7 if radius <= 1, 6 if 1 < radius <= 5, and 5 otherwise.
C8_KeyPrecision ==
    resp.op = "generateKey" =>
        LET len == IF resp.radius # NaN /\ resp.radius <= 1 THEN 7
                   ELSE IF resp.radius # NaN /\ resp.radius <= 5 THEN 6
                   ELSE 5
        IN  /\ resp.result.radius = resp.radius
            /\ resp.result.hash = GeohashEncode(resp.lat, resp.lng, len)
            /\ resp.result.hash[1] \in {5, 6, 7}

\* The key of a radius on the boundary between precisions 7 and 6.
C8_Witness == resp.op = "generateKey" /\ resp.radius = 1 /\ resp.result.hash[1] = 7

\* C9: a nearby request without radius runs with radius 5: its key is
\* geo:<6-character geohash>:5 and the doc store is asked for 5000 m.
C9_DefaultRadiusFive ==
    (resp.op = "nearby" /\ resp.status # 400 /\ ~resp.req.hasRadius) =>
        /\ resp.key.radius = 5
        /\ resp.key.hash[1] = 6
        /\ (~resp.hit => resp.maxDistance = 5000)

\* C10: a nearby request with a latitude outside [-90, 90] or a longitude
\* outside [-180, 180] is answered 400, and it changes neither the cache nor
\* the hit and miss counters.
C10_InvalidCoordinateRejected ==
    [][(/\ resp'.op = "nearby"
        /\ resp'.req.given
        /\ ~ValidPoint(resp'.req.lat, resp'.req.lng)) =>
            /\ resp'.status = 400
            /\ UNCHANGED <<kv, scoreIndex, hitCounter, missCounter, cacheHits>>]_vars

\* C11: a nearby request with page < 1, limit < 1 or limit > 1000 is rejected
\* with a client error and is not passed to the doc store.
C11_PaginationRejected ==
    (/\ resp.op = "nearby"
     /\ resp.req.given
     /\ (resp.req.page < 1 \/ resp.req.limit < 1 \/ resp.req.limit > 1000)) =>
        resp.status = 400

\* C12: the properties of every result the nearby query returns are sorted
\* non-increasing by relevance = temporalScore(item) * 1 / (1 + distanceKm)
\* (stated for the results whose items lie at different distances, where the
\* order the doc store returns them in is determined).
C12_SortedByRelevance ==
    (resp.op = "nearby" /\ resp.status = 200) =>
        \A items \in {resp.result.properties} :
            \/ \E i, j \in 1..Len(items) : i # j /\ items[i].distance = items[j].distance
            \/ \A i \in 1..(Len(items) - 1) :
                    Relevance(items[i], now) >= Relevance(items[i + 1], now)

\* C13: every result the nearby query returns has the fields properties,
\* totalCount, totalPages, currentPage and metadata.
C13_FullShape ==
    (resp.op = "nearby" /\ resp.status = 200) =>
        {"properties", "totalCount", "totalPages", "currentPage", "metadata"}
            \subseteq DOMAIN resp.result

\* C14: a /nearby response for page p and limit l (counts present, p >= 1,
\* 1 <= l <= 1000) has totalPages = ceil(totalCount / l), currentPage = p,
\* hasMore = (p < totalPages) and the p-th slice of at most l items as its
\* properties.
C14_PageOfRequest ==
    (/\ resp.op = "nearby"
     /\ resp.status = 200
     /\ "totalCount" \in DOMAIN resp.result
     /\ resp.req.page >= 1
     /\ resp.req.limit >= 1
     /\ resp.req.limit <= 1000) =>
        \A p \in {resp.req.page} : \A l \in {resp.req.limit} :
        \A total \in {resp.body.totalCount} :
            /\ resp.body.totalPages = (total + l - 1) \div l
            /\ resp.body.currentPage = p
            /\ resp.body.hasMore = (p < resp.body.totalPages)
            /\ Len(resp.body.properties) = Max(0, Min(l, total - (p - 1) * l))

C16_StatsCountNearbyHits ==
    [][(resp'.op = "nearby" /\ resp'.status = 200) =>
        cacheHitCount' = cacheHitCount + (IF resp'.hit THEN 1 ELSE 0)]_vars

\* C17: a nearby miss for which the doc store counts 0 properties caches the
\* empty result under the query key with the TTL of a fresh bucket
\* (1800 + 5400 * 1.0 seconds), and the same request repeated at once is a hit
\* that returns the empty result.
C17_EmptyResultCached ==
    [][/\ (/\ resp'.op = "nearby"
           /\ resp'.status = 200
           /\ ~resp'.hit
           /\ resp'.result.totalCount = 0) =>
              /\ resp'.key \in DOMAIN kv'
              /\ kv'[resp'.key].json.data = JsonRoundTrip(resp'.result)
              /\ kv'[resp'.key].json.data.properties = <<>>
              /\ kv'[resp'.key].ttl = 1800 + 5400
              /\ kv'[resp'.key].setAt = now
       /\ (/\ resp.op = "nearby"
           /\ resp.status = 200
           /\ ~resp.hit
           /\ resp.result.totalCount = 0
           /\ resp'.op = "nearby"
           /\ resp'.req = resp.req) =>
              /\ resp'.status = 200
              /\ resp'.hit
              /\ resp'.result.properties = <<>>
              /\ resp'.result.totalCount = 0]_vars

\* A request has been answered from the cache with an empty result.
C17_Witness ==
    /\ resp.op = "nearby"
    /\ resp.status = 200
    /\ resp.hit
    /\ "totalCount" \in DOMAIN resp.result
    /\ resp.result.totalCount = 0
    /\ resp.result.properties = <<>>

\* C18: a nearby query replaces no live bucket that holds a full query result,
\* other than the one of its own key: neighbor warming writes a key only if
\* the key is not present.
C18_WarmingKeepsLiveBuckets ==
    [][(resp'.op = "nearby" /\ resp'.status # 400) =>
        \A k \in DOMAIN kv \ {resp'.key} :
            "totalCount" \in DOMAIN kv[k].json.data =>
                k \in DOMAIN kv' /\ kv'[k] = kv[k]]_vars

C20_ResponseBeforeWarming ==
    (resp.op = "nearby" /\ resp.status # 400 /\ ~resp.hit) => resp.queries <= 2

\* C21: a failure of a doc-store query issued by neighbor warming does not
\* fail the nearby query: a nearby query is answered 500 only when its count
\* query (call 1) or its page query (call 2) failed.
C21_WarmingFailureSwallowed ==
    (resp.op = "nearby" /\ resp.status = 500) => resp.queries <= 2

\* C22: no failure of a KV command fails a nearby query: a nearby query is
\* answered 500 only when one of its doc-store calls failed (queries is the
\* call that failed, and 0 when none did).
C22_KvFailureNeverFails ==
    (resp.op = "nearby" /\ resp.status = 500) => resp.queries >= 1

\* C23: when addProperty has persisted the record to the doc store, POST /
\* answers 201, also when the invalidation that follows fails.
C23_PersistedWriteSucceeds ==
    [][(resp'.op = "addProperty" /\ docs' # docs) => resp'.status = 201]_vars

\* C24: a nearby query that is answered with an error because a doc-store
\* operation failed leaves the buckets and the sorted set as they were.
C24_FailedQueryKeepsCache ==
    [][(resp'.op = "nearby" /\ resp'.status = 500) =>
        (kv' = kv /\ scoreIndex' = scoreIndex)]_vars

\* C25: when an event that is followed by no put (a trackHit / trackMiss call
\* that completes, or a nearby query served from the cache) brings the counters
\* of its key to hits + misses >= 100, then with hits / (hits + misses) < 0.3
\* every live key of the cell has its TTL set to 1800 s, and with a ratio of at
\* least 0.3 no key's TTL is changed.
C25_LowRatioShortensTtl ==
    [][((resp'.op = "track" /\ ~resp'.threw)
            \/ (resp'.op = "nearby" /\ resp'.status = 200 /\ resp'.hit)) =>
        \A k \in {resp'.key} :
        \A kind \in {IF resp'.op = "track" THEN resp'.kind ELSE "hit"} :
        \A h \in {Count(hitCounter, k) + (IF kind = "hit" THEN 1 ELSE 0)} :
        \A m \in {Count(missCounter, k) + (IF kind = "miss" THEN 1 ELSE 0)} :
            h + m >= 100 =>
                IF 10 * h < 3 * (h + m)
                THEN \A x \in DOMAIN kv :
                        x.hash = k.hash => (x \in DOMAIN kv' /\ kv'[x].ttl = 1800)
                ELSE \A x \in DOMAIN kv :
                        x \in DOMAIN kv' /\ kv'[x].ttl = kv[x].ttl]_vars

\* C26: a nearby query that completes records exactly one event for its key, a
\* hit when it is served from the cache and a miss otherwise, the counters
\* being both reset to 0 when the event brings them to hits + misses >= 100;
\* and after every completed trackHit / trackMiss (of a nearby query or called
\* alone) the counters of the cell of the key add up to less than 100.
C26_OneEventPerQuery ==
    [][/\ (resp'.op = "nearby" /\ resp'.status = 200) =>
            \A k \in {resp'.key} :
            \A h \in {Count(hitCounter, k) + (IF resp'.hit THEN 1 ELSE 0)} :
            \A m \in {Count(missCounter, k) + (IF resp'.hit THEN 0 ELSE 1)} :
                /\ Count(hitCounter', k) = (IF h + m >= 100 THEN 0 ELSE h)
                /\ Count(missCounter', k) = (IF h + m >= 100 THEN 0 ELSE m)
                /\ \A x \in (DOMAIN hitCounter' \cup DOMAIN missCounter') \ {k} :
                      /\ Count(hitCounter', x) = Count(hitCounter, x)
                      /\ Count(missCounter', x) = Count(missCounter, x)
       /\ ((resp'.op = "track" /\ ~resp'.threw) \/ (resp'.op = "nearby" /\ resp'.status = 200)) =>
            \A cell \in {resp'.key.hash} :
                SumOver(hitCounter', {x \in DOMAIN hitCounter' : x.hash = cell})
                    + SumOver(missCounter', {x \in DOMAIN missCounter' : x.hash = cell}) < 100]_vars

\* C27: under concurrent handlers the counters of a key never add up to more
\* than 100, a reset discards exactly the 100 events of its window (no other
\* recorded event is lost), and a window is not evaluated again while its
\* evaluation is in progress.
C27_AtomicCounterUpdates ==
    [][/\ \A k \in DOMAIN hitCounter' \cup DOMAIN missCounter' :
            Count(hitCounter', k) + Count(missCounter', k) <= 100
       /\ resp'.op = "trackResume" =>
            Count(hitCounter, resp'.key) + Count(missCounter, resp'.key) = 100
       /\ (resp'.op = "trackBegin" /\ resp'.evaluated) =>
            Count(awaiting, resp'.key) = 0]_vars

\* The original statement of C28: cleanupTemporalCache(threshold) deletes every
\* key whose score in the sorted set is at most threshold together with its
\* entry, leaves every other key and entry untouched, and returns the number
\* of keys it deleted.
C28_CleanupReturnsDeleted ==
    [][resp'.op = "cleanup" =>
        /\ \A k \in DOMAIN scoreIndex :
              IF scoreIndex[k] <= resp'.threshold
              THEN k \notin DOMAIN kv' /\ k \notin DOMAIN scoreIndex'
              ELSE /\ k \in DOMAIN scoreIndex' /\ scoreIndex'[k] = scoreIndex[k]
                   /\ k \in DOMAIN kv => (k \in DOMAIN kv' /\ kv'[k] = kv[k])
        /\ DOMAIN kv' \subseteq DOMAIN kv
        /\ DOMAIN scoreIndex' \subseteq DOMAIN scoreIndex
        /\ resp'.result = Cardinality(DOMAIN kv \ DOMAIN kv')]_vars

\* C28: cleanupTemporalCache(threshold) deletes every key whose score in the
\* sorted set is at most threshold together with its entry, leaves every
\* other key and entry untouched, and returns the number of entries it
\* removed from the sorted set, the entries of keys that were already gone
\* included.
C28_CleanupReturnsEntries ==
    [][resp'.op = "cleanup" =>
        /\ \A k \in DOMAIN scoreIndex :
              IF scoreIndex[k] <= resp'.threshold
              THEN k \notin DOMAIN kv' /\ k \notin DOMAIN scoreIndex'
              ELSE /\ k \in DOMAIN scoreIndex' /\ scoreIndex'[k] = scoreIndex[k]
                   /\ k \in DOMAIN kv => (k \in DOMAIN kv' /\ kv'[k] = kv[k])
        /\ DOMAIN kv' \subseteq DOMAIN kv
        /\ DOMAIN scoreIndex' \subseteq DOMAIN scoreIndex
        /\ resp'.result = Cardinality(DOMAIN scoreIndex \ DOMAIN scoreIndex')
        /\ resp'.result >= Cardinality(DOMAIN kv \ DOMAIN kv')]_vars

\* A cleanup at the score of a bucket dated 12 days back has removed an entry,
\* and a key with a higher score is live and indexed after it.
C28_Witness ==
    /\ resp.op = "cleanup"
    /\ resp.threshold = calculateTemporalScore(0, -12, NoAttributes)
    /\ resp.result = 1
    /\ \E k \in DOMAIN kv : k \in DOMAIN scoreIndex /\ scoreIndex[k] > resp.threshold

\* C29: when updateTemporalScores has completed, every entry of the sorted
\* set belongs to a live key and carries the score computed now from the
\* dateAdded and the attributes stored in the key's bucket, every key that
\* was live and indexed still has its entry, and no bucket has changed.
C29_RefreshRecomputesAndPrunes ==
    [][resp'.op = "update" =>
        /\ kv' = kv
        /\ \A k \in DOMAIN scoreIndex' :
              /\ k \in DOMAIN kv
              /\ k \in DOMAIN scoreIndex
              /\ scoreIndex'[k] = calculateTemporalScore(now,
                                      DateOf(kv[k].json.metadata.dateAdded),
                                      kv[k].json.metadata)
        /\ \A k \in DOMAIN scoreIndex \cap DOMAIN kv : k \in DOMAIN scoreIndex']_vars

\* An update has left a live key with a score other than the one its bucket
\* was stored with.
C29_Witness ==
    /\ resp.op = "update"
    /\ \E k \in DOMAIN scoreIndex : k \in DOMAIN kv /\ scoreIndex[k] # kv[k].json.score

\* C30: getTopRankedProperties(limit) returns the data of the
\* min(limit, number of live keys) live keys of highest score, highest first,
\* whatever entries of keys that are gone the sorted set holds.
C30_TopOfLiveKeys ==
    resp.op = "top" =>
        \A live \in {[k \in DOMAIN scoreIndex \cap DOMAIN kv |-> scoreIndex[k]]} :
        \A best \in {ZRevRangeByScore(live, resp.limit)} :
            /\ Len(resp.result) = Min(resp.limit, Cardinality(DOMAIN live))
            /\ Len(resp.result) = Len(best)
            /\ \A i \in 1..Len(best) : resp.result[i] = kv[best[i]].json.data

(***************************************************************************)
(* The temporal scorer alone: two dates scored at one instant with the     *)
(* same attributes, for ages from 45 days ahead to 95 days back.           *)
(***************************************************************************)
\* The dates, scored at day 0: 45 days ahead, around today, around the 7-day
\* and 30-day boundaries and the 90-day cap, and beyond the cap.
ScoreDates == {45, 1, 0, -1, -6, -7, -8, -29, -30, -31, -60, -89, -90, -91, -95}

\* calculateTemporalScore(older, attrs) and calculateTemporalScore(newer, attrs)
ScorePairCall(older, newer, attrs) ==
    /\ resp' = [op |-> "scorePair", older |-> older, newer |-> newer, attrs |-> attrs,
                olderScore |-> calculateTemporalScore(now, older, attrs),
                newerScore |-> calculateTemporalScore(now, newer, attrs)]
    /\ UNCHANGED <<now, kv, scoreIndex, docs, hitCounter, missCounter, cacheHits, cacheHitCount, awaiting>>

NextScore ==
    \E older \in ScoreDates, newer \in ScoreDates, attrs \in {NoAttributes, AllBoosts} :
        ScorePairCall(older, newer, attrs)

SpecScore == Init /\ [][NextScore]_vars

\* C35: of two dates scored with equal attributes the later one never has the
\* lower temporal score, across the 7-day and 30-day weight boundaries and
\* the 90-day age cap as well.
C35_ScoreMonotoneInFreshness ==
    (resp.op = "scorePair" /\ resp.newer > resp.older) =>
        resp.newerScore >= resp.olderScore

\* A date on the far side of the 7-day boundary against one on the near side,
\* and two dates beyond the cap that score the same.
C35_Witness ==
    /\ resp.op = "scorePair"
    /\ \/ now - resp.older = 8 /\ now - resp.newer = 7 /\ resp.newerScore > resp.olderScore
       \/ now - resp.older = 95 /\ now - resp.newer = 91 /\ resp.newerScore = resp.olderScore

(***************************************************************************)
(* The ordering of one result: the page findNearbyProperties builds from   *)
(* a collection whose documents carry the property_id the client gave      *)
(* them.  $geoNear returns documents at one distance in the order the      *)
(* collection stores them, which is any order of their ids.                *)
(***************************************************************************)
SortPoints == {PointA, PointNear}

SortDates == {0, -12}

\* The stored collections: two or three documents, each with its own id.
StoredCollections ==
    {stored \in UNION {[1..n -> [id : 1..3, lat : {p.lat : p \in SortPoints},
                                 lng : {p.lng : p \in SortPoints},
                                 date_added : SortDates]] : n \in 2..3} :
        /\ \A i, j \in 1..Len(stored) : i # j => stored[i].id # stored[j].id
        /\ \A i \in 1..Len(stored) :
             \E p \in SortPoints : stored[i].lat = p.lat /\ stored[i].lng = p.lng}

\* The documents by storage position.
StoredDocs(stored) ==
    {[id |-> i, lat |-> stored[i].lat, lng |-> stored[i].lng,
      date_added |-> stored[i].date_added] : i \in 1..Len(stored)}

\* result.properties of a miss, each item with its property_id.
SortedProperties(stored, lat, lng, radius, page, limit, t) ==
    LET items == QueryResult(StoredDocs(stored), lat, lng, radius, page, limit, t).properties
    IN  [i \in 1..Len(items) |-> [items[i] EXCEPT !.id = stored[items[i].id].id]]

\* findNearbyProperties on a miss, lines 47-69.
SortCall(stored) ==
    /\ resp' = [op |-> "sort", stored |-> stored,
                properties |-> SortedProperties(stored, PointA.lat, PointA.lng, 10, 1, 50, now)]
    /\ UNCHANGED <<now, kv, scoreIndex, docs, hitCounter, missCounter, cacheHits, cacheHitCount, awaiting>>

NextSort == \E stored \in StoredCollections : SortCall(stored)

SpecSort == Init /\ [][NextSort]_vars

\* C33: of two items of one result with equal relevance the one with the
\* smaller distance comes first, and of two with equal relevance and equal
\* distance the one with the lexically smaller id comes first (the ids are
\* single digits, whose lexical order is their numeric order).
C33_TiesByDistanceThenId ==
    resp.op = "sort" =>
        \A items \in {resp.properties} :
        \A i, j \in 1..Len(items) :
            (i < j /\ items[i].score = items[j].score) =>
                /\ items[i].distance <= items[j].distance
                /\ items[i].distance = items[j].distance => items[i].id < items[j].id

(***************************************************************************)
(* route/property.route.js: GET /aggregate.  The pipeline is built as the  *)
(* route builds it ($group, $project, $sort, with a $match unshifted for   *)
(* each filter of the query string) and run stage by stage over the        *)
(* collection.                                                             *)
(***************************************************************************)
MaxAggregateDocs == 3

Cities == {"Lahore", "Karachi"}

Purposes == {"For Sale", "For Rent"}

PropertyTypes == {"Flat", "House"}

\* req.query: the filters the query string carries; ?purpose= carries "".
AggregateQueries ==
    {[f \in {} |-> ""]}
        \cup {[purpose |-> p] : p \in Purposes \cup {""}}
        \cup {[propertyType |-> "Flat"]}
        \cup {[purpose |-> p, propertyType |-> "Flat"] : p \in Purposes \cup {""}}

\* if (purpose): the parameter is present and not the empty string.
Supplied(query, name) == name \in DOMAIN query /\ query[name] # ""

MatchStage(field, value) == [stage |-> "$match", field |-> field, value |-> value]

\* Array.prototype.push: the stage goes to the end of the pipeline.
Push(pipeline, stage) == pipeline \o <<stage>>

\* Array.prototype.unshift: the stage goes to the front of the pipeline.
Unshift(pipeline, stage) == <<stage>> \o pipeline

BasePipeline == <<[stage |-> "$group"], [stage |-> "$project"], [stage |-> "$sort"]>>

\* The pipeline of the route for a query string.
AggregatePipeline(query) ==
    LET withPurpose == IF Supplied(query, "purpose")
                       THEN Unshift(BasePipeline, MatchStage("purpose", query.purpose))
                       ELSE BasePipeline
    IN  IF Supplied(query, "propertyType")
        THEN Unshift(withPurpose, MatchStage("property_type", query.propertyType))
        ELSE withPurpose

\* { $match: { field: value } }: a document without the field does not match.
Match(items, field, value) ==
    SelectSeq(items, LAMBDA item : field \in DOMAIN item /\ item[field] = value)

\* The group of a city: $sum: 1, the two conditional sums and $addToSet.
GroupOf(items, city) ==
    LET members == {i \in DOMAIN items : items[i].city = city}
    IN  [_id |-> city,
         count |-> Cardinality(members),
         forSale |-> Cardinality({i \in members : items[i].purpose = "For Sale"}),
         forRent |-> Cardinality({i \in members : items[i].purpose = "For Rent"}),
         propertyTypes |-> {items[i].property_type : i \in members}]

\* { $group: { _id: "$city", ... } }: one group per city, in the order the
\* cities first appear.
RECURSIVE GroupCities(_, _)
GroupCities(items, seen) ==
    IF \A i \in DOMAIN items : items[i].city \in seen THEN <<>>
    ELSE LET first == CHOOSE i \in DOMAIN items :
                          /\ items[i].city \notin seen
                          /\ \A j \in 1..(i - 1) : items[j].city \in seen
         IN  <<GroupOf(items, items[first].city)>>
                 \o GroupCities(items, seen \cup {items[first].city})

\* { $project: { city: "$_id", count: 1, ..., _id: 0 } }
Project(groups) ==
    [i \in DOMAIN groups |->
        [city |-> groups[i]._id, count |-> groups[i].count, forSale |-> groups[i].forSale,
         forRent |-> groups[i].forRent, propertyTypes |-> groups[i].propertyTypes]]

\* { $sort: { count: -1 } }
RECURSIVE InsertByCount(_, _)
InsertByCount(sorted, item) ==
    IF sorted = <<>> THEN <<item>>
    ELSE IF Head(sorted).count >= item.count
         THEN <<Head(sorted)>> \o InsertByCount(Tail(sorted), item)
         ELSE <<item>> \o sorted

RECURSIVE SortByCount(_)
SortByCount(items) ==
    IF items = <<>> THEN <<>>
    ELSE InsertByCount(SortByCount(SubSeq(items, 1, Len(items) - 1)), items[Len(items)])

\* PropertyModel.aggregate(pipeline): the stages in order.
RECURSIVE Aggregate(_, _)
Aggregate(items, pipeline) ==
    IF pipeline = <<>> THEN items
    ELSE LET stage == Head(pipeline)
             out == IF stage.stage = "$match" THEN Match(items, stage.field, stage.value)
                    ELSE IF stage.stage = "$group" THEN GroupCities(items, {})
                    ELSE IF stage.stage = "$project" THEN Project(items)
                    ELSE SortByCount(items)
         IN  Aggregate(out, Tail(pipeline))

\* The collection in the order of insertion.
RECURSIVE Stored(_, _)
Stored(coll, n) ==
    IF n = 0 THEN <<>>
    ELSE Stored(coll, n - 1) \o <<CHOOSE d \in coll : d.id = n>>

\* A property is inserted.
InsertProperty(city, purpose, propertyType) ==
    /\ Cardinality(docs) < MaxAggregateDocs
    /\ docs' = docs \cup {[id |-> Cardinality(docs) + 1, city |-> city, purpose |-> purpose,
                           property_type |-> propertyType]}
    /\ resp' = [op |-> "insert"]
    /\ UNCHANGED <<now, kv, scoreIndex, hitCounter, missCounter, cacheHits, cacheHitCount, awaiting>>

\* GET /aggregate
AggregateCall(query) ==
    /\ resp' = [op |-> "aggregate", query |-> query, status |-> 200,
                body |-> Aggregate(Stored(docs, Cardinality(docs)), AggregatePipeline(query))]
    /\ UNCHANGED <<now, kv, scoreIndex, docs, hitCounter, missCounter, cacheHits, cacheHitCount, awaiting>>

NextAggregate ==
    \/ \E city \in Cities, purpose \in Purposes, propertyType \in PropertyTypes :
          InsertProperty(city, purpose, propertyType)
    \/ \E query \in AggregateQueries : AggregateCall(query)

SpecAggregate == Init /\ [][NextAggregate]_vars

\* The documents that satisfy every filter of the query that is not empty.
Satisfying(query) ==
    {d \in docs :
        /\ Supplied(query, "purpose") => d.purpose = query.purpose
        /\ Supplied(query, "propertyType") => d.property_type = query.propertyType}

\* C34: the aggregation returns one group for every city that has a document
\* satisfying all the supplied filters and no other group, each group counts
\* exactly the documents of its city that satisfy them, and the groups come
\* in non-increasing order of count.
C34_FiltersBeforeGrouping ==
    resp.op = "aggregate" =>
        \A matching \in {Satisfying(resp.query)} :
        \A groups \in {resp.body} :
            /\ {groups[i].city : i \in DOMAIN groups} = {d.city : d \in matching}
            /\ Len(groups) = Cardinality({d.city : d \in matching})
            /\ \A i \in DOMAIN groups :
                 /\ groups[i].count = Cardinality({d \in matching : d.city = groups[i].city})
                 /\ groups[i].forSale = Cardinality({d \in matching :
                        d.city = groups[i].city /\ d.purpose = "For Sale"})
            /\ \A i \in 1..(Len(groups) - 1) : groups[i].count >= groups[i + 1].count

\* A purpose filter is supplied, a document of a returned city fails the
\* filters, and a returned group counts two documents.
C34_Witness ==
    /\ resp.op = "aggregate"
    /\ Supplied(resp.query, "purpose")
    /\ \E d \in docs \ Satisfying(resp.query) : \E i \in DOMAIN resp.body : resp.body[i].city = d.city
    /\ \E i \in DOMAIN resp.body : resp.body[i].count = 2

(***************************************************************************)
(* proxmity-cache/nodejs/src/services/redis.service.js: setCompressed and  *)
(* getCompressed.  In this specification kv is the Redis of that service.  *)
(* A value is {id, at, coordinates}: a number, a Date and an array of      *)
(* numbers; its JSON text is the sequence of the numbers written, and      *)
(* gzip is modelled by the run-length coding of that sequence.             *)
(***************************************************************************)
CompressedKeys == {"test-key"}

CompressedValues ==
    [id : {1, NaN}, at : {Date(0)},
     coordinates : UNION {[1..n -> {1, 2, NaN}] : n \in 0..3}]

\* JSON.stringify(value): NaN is written as null, the Date as its ISO string.
StringifyData(value) ==
    <<JsonNumber(value.id), value.at.t>>
        \o [i \in 1..Len(value.coordinates) |-> JsonNumber(value.coordinates[i])]

\* JSON.parse(text)
ParseData(text) ==
    [id |-> text[1], at |-> IsoString(text[2]), coordinates |-> SubSeq(text, 3, Len(text))]

\* The length of the run of equal bytes the text starts with.
RECURSIVE RunLength(_)
RunLength(text) ==
    IF Len(text) >= 2 /\ text[2] = text[1] THEN 1 + RunLength(Tail(text)) ELSE 1

\* gzip(Buffer.from(text))
RECURSIVE Gzip(_)
Gzip(text) ==
    IF text = <<>> THEN <<>>
    ELSE <<[byte |-> Head(text), count |-> RunLength(text)]>>
            \o Gzip(SubSeq(text, RunLength(text) + 1, Len(text)))

\* A decompression that writes every run once.
GunzipOnePerRun(compressed) == [i \in 1..Len(compressed) |-> compressed[i].byte]

\* gunzip(compressed).toString()
RECURSIVE Gunzip(_)
Gunzip(compressed) ==
    IF compressed = <<>> THEN <<>>
    ELSE [i \in 1..Head(compressed).count |-> Head(compressed).byte] \o Gunzip(Tail(compressed))

\* RedisService.setCompressed(key, value, ttl = 3600)
SetCompressed(key, value) ==
    /\ kv' = SetEx(kv, key, 3600, Gzip(StringifyData(value)), now)
    /\ resp' = [op |-> "setCompressed", key |-> key, value |-> value, result |-> TRUE]
    /\ UNCHANGED <<now, scoreIndex, docs, hitCounter, missCounter, cacheHits, cacheHitCount, awaiting>>

\* RedisService.getCompressed(key)
GetCompressed(key) ==
    /\ resp' = [op |-> "getCompressed", key |-> key,
                result |-> IF key \in DOMAIN kv THEN ParseData(Gunzip(kv[key].json)) ELSE Null]
    /\ UNCHANGED <<now, kv, scoreIndex, docs, hitCounter, missCounter, cacheHits, cacheHitCount, awaiting>>

NextCompressed ==
    \/ Tick(MaxTime)
    \/ \E key \in CompressedKeys, value \in CompressedValues : SetCompressed(key, value)
    \/ \E key \in CompressedKeys : GetCompressed(key)

SpecCompressed == Init /\ [][NextCompressed]_vars

\* C36: getCompressed(key) right after setCompressed(key, value) returns a
\* value whose JSON text is the JSON text of the value stored.
C36_CompressedRoundTrip ==
    [][(resp.op = "setCompressed" /\ resp'.op = "getCompressed" /\ resp'.key = resp.key) =>
        /\ resp'.result # Null
        /\ StringifyData(resp'.result) = StringifyData(resp.value)]_vars

\* A get has returned a value stored with a run of equal numbers and a NaN
\* in it: the NaN has come back as null, the Date as a string.
C36_Witness ==
    /\ resp.op = "getCompressed"
    /\ resp.result # Null
    /\ resp.result.coordinates = <<1, 1, NullNumber>>
    /\ resp.result.at = IsoString(0)

(***************************************************************************)
(* MultiLevelCache.get(key, dbFallback): Redis first, the database on a    *)
(* miss, and the database again from the catch block.  In this             *)
(* specification kv is the Redis of the MultiLevelCache.                   *)
(***************************************************************************)
MultiKeys == {"pagedData", "nearbyLocations"}

\* What a call of dbFallback does: it throws, or it returns null or a page.
FallbackOutcomes ==
    {[threw |-> TRUE, data |-> Null], [threw |-> FALSE, data |-> Null]}
        \cup {[threw |-> FALSE, data |-> [totalCount |-> n, currentPage |-> 1]] : n \in {0, 1}}

\* Where the try block of get stops: "hit" at the return of the cached data,
\* "get" at a failed redis.get, "db" at a dbFallback that threw, "set" at a
\* failed redis.set, "null" and "stored" at return data.
MultiPath(store, key, getFails, first, setFails) ==
    IF getFails THEN "get"
    ELSE IF key \in DOMAIN store THEN "hit"
    ELSE IF first.threw THEN "db"
    ELSE IF first.data = Null THEN "null"
    ELSE IF setFails THEN "set"
    ELSE "stored"

\* The number of times get invokes dbFallback: once in the try block unless
\* redis.get failed or hit, and once in the catch block.
MultiFallbacks(path) ==
    IF path = "hit" THEN 0
    ELSE IF path \in {"db", "set"} THEN 2
    ELSE 1

\* MultiLevelCache.get(key, dbFallback, ttl = 3600); first and second are what
\* the first and the second invocation of dbFallback do.
MultiGet(key, getFails, first, setFails, second) ==
    \E path \in {MultiPath(kv, key, getFails, first, setFails)} :
    \E final \in {IF path \in {"db", "set"} THEN second ELSE first} :
        /\ kv' = IF path = "stored" THEN SetEx(kv, key, 3600, first.data, now) ELSE kv
        /\ resp' = [op |-> "multiGet", key |-> key, path |-> path,
                    hit |-> path = "hit",
                    fallbacks |-> MultiFallbacks(path),
                    threw |-> path # "hit" /\ final.threw,
                    result |-> IF path = "hit" THEN kv[key].json ELSE final.data]
        /\ UNCHANGED <<now, scoreIndex, docs, hitCounter, missCounter, cacheHits, cacheHitCount, awaiting>>

NextMulti ==
    \/ Tick(MaxTime)
    \/ \E key \in MultiKeys, getFails \in BOOLEAN, first \in FallbackOutcomes,
          setFails \in BOOLEAN, second \in FallbackOutcomes :
          MultiGet(key, getFails, first, setFails, second)

SpecMulti == Init /\ [][NextMulti]_vars

\* C40: a call of MultiLevelCache.get invokes dbFallback at most once, and
\* not at all when it returns the cached data, whether the Redis read, the
\* Redis write or dbFallback itself fails.
C40_FallbackAtMostOnce ==
    resp.op = "multiGet" =>
        /\ resp.fallbacks <= 1
        /\ resp.hit => resp.fallbacks = 0

(***************************************************************************)
(* setCacheWithTemporalDecay with a KV store that can fail: its two        *)
(* commands are awaited one after the other inside one try block.          *)
(***************************************************************************)
\* The command of a put that fails, if any.
PutFailChoices == {"none", "setEx", "zAdd"}

\* setCacheWithTemporalDecay(key, value, dateAdded, propertyAttributes) where
\* the command kvFail rejects: a rejected setEx skips zAdd.
PutCallFailing(key, value, dateAdded, attrs, kvFail) ==
    /\ kv' = IF kvFail = "setEx" THEN kv ELSE PutStore(kv, key, value, dateAdded, attrs, now)
    /\ scoreIndex' = IF kvFail = "none" THEN PutIndex(scoreIndex, key, dateAdded, attrs, now)
                     ELSE scoreIndex
    /\ resp' = [op |-> "put", key |-> key, value |-> value, result |-> kvFail = "none"]
    /\ UNCHANGED <<now, docs, hitCounter, missCounter, cacheHits, cacheHitCount, awaiting>>

NextPutFail ==
    \/ Tick(MaxDecayTime)
    \/ \E key \in ApiKeys, value \in ApiValues, dateAdded \in {now, -12, 42},
          attrs \in {NoAttributes, AllBoosts}, kvFail \in PutFailChoices :
          PutCallFailing(key, value, dateAdded, attrs, kvFail)
    \/ \E key \in ApiKeys : GetCall(key)

SpecPutFail == Init /\ [][NextPutFail]_vars

\* C39: a setCacheWithTemporalDecay that returns false has written neither a
\* bucket nor a sorted-set entry.
C39_FailedPutChangesNothing ==
    [][(resp'.op = "put" /\ ~resp'.result) =>
        (kv' = kv /\ scoreIndex' = scoreIndex)]_vars

(***************************************************************************)
(* The cache API under concurrent handlers.  A handler runs until it       *)
(* awaits a reply of the KV store; the replies arrive in the order of the  *)
(* commands, so the suspended calls resume first in, first out.  In this   *)
(* specification awaiting is the sequence of the suspended calls.          *)
(***************************************************************************)
\* setCacheWithTemporalDecay up to await client.setEx (line 86).
PutSetEx(key, value, dateAdded, attrs) ==
    /\ Len(awaiting) < MaxHandlers
    /\ kv' = PutStore(kv, key, value, dateAdded, attrs, now)
    /\ awaiting' = awaiting \o <<[op |-> "put", key |-> key, value |-> value,
                                  dateAdded |-> dateAdded, attrs |-> attrs, calledAt |-> now]>>
    /\ resp' = [op |-> "putSetEx", key |-> key]
    /\ UNCHANGED <<now, scoreIndex, docs, hitCounter, missCounter, cacheHits, cacheHitCount>>

\* setCacheWithTemporalDecay from client.zAdd (line 97) to its return.
PutZAdd ==
    /\ awaiting # <<>>
    /\ Head(awaiting).op = "put"
    /\ \E call \in {Head(awaiting)} :
         /\ scoreIndex' = PutIndex(scoreIndex, call.key, call.dateAdded, call.attrs, call.calledAt)
         /\ resp' = [op |-> "put", key |-> call.key, value |-> call.value, result |-> TRUE]
    /\ awaiting' = Tail(awaiting)
    /\ UNCHANGED <<now, kv, docs, hitCounter, missCounter, cacheHits, cacheHitCount>>

\* cleanupTemporalCache(threshold) up to await client.zRangeByScore (line 139);
\* with no key in the range it returns 0.
CleanupRange(threshold) ==
    /\ Len(awaiting) < MaxHandlers
    /\ \E lowScoreKeys \in {ZRangeByScore(scoreIndex, 0, threshold)} :
         IF lowScoreKeys = {}
         THEN /\ resp' = [op |-> "cleanup", threshold |-> threshold, result |-> 0]
              /\ UNCHANGED awaiting
         ELSE /\ resp' = [op |-> "cleanupRange", threshold |-> threshold]
              /\ awaiting' = awaiting \o <<[op |-> "cleanup", threshold |-> threshold,
                                            lowScoreKeys |-> lowScoreKeys]>>
    /\ UNCHANGED <<now, kv, scoreIndex, docs, hitCounter, missCounter, cacheHits, cacheHitCount>>

\* cleanupTemporalCache from the Promise.all of lines 143-146 to its return.
CleanupRemove ==
    /\ awaiting # <<>>
    /\ Head(awaiting).op = "cleanup"
    /\ \E call \in {Head(awaiting)} :
         /\ kv' = Del(kv, call.lowScoreKeys)
         /\ scoreIndex' = ZRemRangeByScore(scoreIndex, 0, call.threshold)
         /\ resp' = [op |-> "cleanup", threshold |-> call.threshold,
                     result |-> Cardinality(call.lowScoreKeys)]
    /\ awaiting' = Tail(awaiting)
    /\ UNCHANGED <<now, docs, hitCounter, missCounter, cacheHits, cacheHitCount>>

NextRace ==
    \/ Tick(MaxTime)
    \/ \E put \in RankPuts, dateAdded \in {now, -12} :
          PutSetEx(put.key, put.value, dateAdded, NoAttributes)
    \/ PutZAdd
    \/ CleanupRange(DefaultThreshold)
    \/ CleanupRemove
    \/ UpdateCall

SpecRace == Init /\ [][NextRace]_vars

\* C31: when a put has completed, the bucket of its key, if the key is
\* live, holds the score of the key's entry in the sorted set, also when
\* another put of the key is under way.
C31_PutLeavesScoresEqual ==
    (resp.op = "put" /\ resp.key \in DOMAIN kv) =>
        /\ resp.key \in DOMAIN scoreIndex
        /\ kv[resp.key].json.score = scoreIndex[resp.key]

\* C38: a cleanupTemporalCache that runs while puts and updateTemporalScores
\* run removes the sorted-set entry of no key that is live when it returns.
C38_CleanupRemovesNoLiveEntry ==
    [][resp'.op = "cleanup" =>
        \A k \in DOMAIN scoreIndex \ DOMAIN scoreIndex' : k \notin DOMAIN kv']_vars

(***************************************************************************)
(* The nearby query over the days in which a bucket it wrote would         *)
(* degrade, if it were still there.                                        *)
(***************************************************************************)
NextNearbyDecay ==
    \/ Tick(MaxDecayTime)
    \/ AddProperty(PointA, now, FALSE, 0, MaxDocs)
    \/ \E r \in Requests :
          Nearby(TRUE, r.point, r.hasRadius, r.radius, 1, 50, 0)

SpecNearbyDecay == Init /\ [][NextNearbyDecay]_vars

\* C37: a bucket written by the nearby query has a TTL of at most 7200 s and
\* is gone before the degradation check would judge it stale: no live key is
\* stale at any time, and no read of the nearby query finds a stale bucket.
C37_NearbyBucketsExpireFresh ==
    [][/\ \A k \in DOMAIN kv' : kv'[k].ttl <= 7200 /\ ~IsStale(kv', k, now')
       /\ (resp'.op = "nearby" /\ resp'.status = 200) => ~IsStale(kv, resp'.key, now)]_vars

\* A nearby query has missed at an age at which the bucket the first miss of
\* its key wrote would be stale: with no property ever added, that bucket
\* had expired.
C37_Witness ==
    /\ resp.op = "nearby"
    /\ resp.status = 200
    /\ ~resp.hit
    /\ docs = {}
    /\ now >= 4
    /\ Count(missCounter, resp.key) = 2
    /\ Degraded(calculateTemporalScore(4, 0, NoAttributes), ScoreOne)

(***************************************************************************)
(* A nearby query that races with addProperty.  The query is suspended at  *)
(* await Property.aggregate (line 47): the doc store has computed the page *)
(* and the handler has not yet cached it.  Handlers start and resume on    *)
(* the days before MaxDecayTime, so that every TTL runs out within the     *)
(* days of the model.  awaiting is the sequence of the suspended queries.  *)
(***************************************************************************)
\* The key of the query that races.
RaceKey == generateKey(PointA.lat, PointA.lng, 10)

\* findNearbyProperties(PointA, 10) from its start to await Property.aggregate
\* on a miss: the read of the cache, trackMiss and the two aggregations.
NearbyMiss ==
    /\ now < MaxDecayTime
    /\ Events < MaxRequests
    /\ Len(awaiting) < MaxHandlers
    /\ ~Truthy(GetResult(kv, RaceKey, now))
    /\ kv' = GetStore(kv, RaceKey, now)
    /\ scoreIndex' = GetIndex(kv, scoreIndex, RaceKey, now)
    /\ cacheHits' = IF RaceKey \in DOMAIN kv THEN cacheHits + 1 ELSE cacheHits
    /\ hitCounter' = HitCounterAfter("miss", hitCounter, missCounter, RaceKey, "none")
    /\ missCounter' = MissCounterAfter("miss", hitCounter, missCounter, RaceKey, "none")
    /\ awaiting' = awaiting \o <<[op |-> "nearby", key |-> RaceKey, found |-> docs]>>
    /\ resp' = [op |-> "nearbyMiss", key |-> RaceKey]
    /\ UNCHANGED <<now, docs, cacheHitCount>>

\* The suspended query resumes: it scores and sorts the page it was given,
\* caches it (line 84) and warms the neighbors with what the doc store holds
\* now (lines 87-109).
NearbyStore ==
    /\ now < MaxDecayTime
    /\ awaiting # <<>>
    /\ \E call \in {Head(awaiting)} :
       \E result \in {QueryResult(call.found, PointA.lat, PointA.lng, 10, 1, 50, now)} :
       \E items \in {WarmItems(docs, PointA.lat, PointA.lng, 10)} :
       \E neighbors \in {getNeighbors(PointA.lat, PointA.lng, 10)} :
         /\ kv' = WarmStore(PutStore(kv, call.key, result, now, NoAttributes, now),
                            neighbors, 10, items, 8, now)
         /\ scoreIndex' = WarmIndex(PutIndex(scoreIndex, call.key, now, NoAttributes, now),
                                    neighbors, 10, items, 8, now)
         /\ resp' = [op |-> "nearby", status |-> 200, hit |-> FALSE, key |-> call.key,
                     result |-> result]
    /\ awaiting' = Tail(awaiting)
    /\ UNCHANGED <<now, docs, hitCounter, missCounter, cacheHits, cacheHitCount>>

NextStale ==
    \/ Tick(MaxDecayTime)
    \/ AddProperty(PointA, now, FALSE, 0, MaxDocs)
    \/ NearbyMiss
    \/ NearbyStore
    \/ now < MaxDecayTime /\ Nearby(TRUE, PointA, TRUE, 10, 1, 50, 0)

SpecStale == Init /\ [][NextStale]_vars

\* Time passes.
SpecStaleFair == SpecStale /\ WF_vars(Tick(MaxDecayTime))

\* The key holds a full result whose count is not the count the doc store
\* gives for its query now.
StaleBucket(key) ==
    /\ key \in DOMAIN kv
    /\ "totalCount" \in DOMAIN kv[key].json.data
    /\ \E data \in {kv[key].json.data} :
         data.totalCount # Len(GeoNear(docs, data.metadata.coordinates.latitude,
                                       data.metadata.coordinates.longitude,
                                       MaxDistance(data.metadata.radius)))

\* C32: a bucket computed before a write and cached after the invalidation of
\* that write does not stay: with no further handler needed, the key is
\* eventually gone.
C32_StaleBucketGoes == StaleBucket(RaceKey) ~> (RaceKey \notin DOMAIN kv)

\* A nearby query has been answered from a bucket computed before the
\* property was added and cached after its invalidation.
C32_Witness ==
    /\ resp.op = "nearby"
    /\ resp.hit
    /\ StaleBucket(RaceKey)
    /\ docs # {}

====
